---- MODULE Spec2Model ----
(***************************************************************************)
(* Scheduling and broadcast core of the community bot: the /setschedule    *)
(* conversation (bot/commands.py), the settings store (bot/database.py),   *)
(* the job registry and the daily/weekly callbacks (bot/scheduler.py) and  *)
(* the broadcast loops (bot/utils.py).                                     *)
(*                                                                         *)
(* Text that the code inspects character by character (times) is a         *)
(* sequence of one-character strings; free text (announcement bodies,      *)
(* operator-visible replies) is an atomic string.                          *)
(***************************************************************************)
EXTENDS Integers, Sequences, FiniteSets, TLC

VARIABLES
    started,     \* main() has run setup_scheduler and the bot is polling
    jobQueue,    \* application.job_queue is not None
    dbUp,        \* db_manager._settings_collection etc. are not None
    settings,    \* the settings collection: a sequence of documents
    users,       \* the users collection: a sequence of user documents
    admins,      \* the admins collection: the set of admin user ids
    jobs,        \* the jobs registered in application.job_queue
    conv,        \* per operator: state of the schedule_handler conversation
    userData,    \* per operator: context.user_data
    reply,       \* per operator: the last text the bot showed them
    now,         \* wall clock, in slots since midnight
    bc,          \* the broadcast loops in flight, one slot per origin
    hist,        \* history of the run: what was entered, sent and fired
    rt,          \* scratch state of the time-conversion round trip
    chatUser,    \* per conversation key (a chat and a user in it): the user
    adminConv    \* per conversation key: the states of announcement_handler,
                 \* add_admin_handler and remove_admin_handler

vars == <<started, jobQueue, dbUp, settings, users, admins, jobs, conv,
          userData, reply, now, bc, hist, rt, chatUser, adminConv>>

-----------------------------------------------------------------------------
(* Text helpers: Python str/int/re as used by the code                     *)

DigitChars == <<"0", "1", "2", "3", "4", "5", "6", "7", "8", "9">>

IsDigit(c) == \E i \in 1..Len(DigitChars) : DigitChars[i] = c

DigitVal(c) == (CHOOSE i \in 1..Len(DigitChars) : DigitChars[i] = c) - 1

AllDigits(s) == \A i \in 1..Len(s) : IsDigit(s[i])

\* int(s) for a non-empty string of decimal digits
RECURSIVE IntOf(_)
IntOf(s) ==
    IF s = <<>> THEN 0
    ELSE IntOf(SubSeq(s, 1, Len(s) - 1)) * 10 + DigitVal(s[Len(s)])

\* int(s) raises ValueError unless s is a decimal numeral
IntRaises(s) == s = <<>> \/ ~AllDigits(s)

\* f"{n}" for n >= 0
RECURSIVE Dec(_)
Dec(n) ==
    IF n < 10 THEN <<DigitChars[n + 1]>>
    ELSE Dec(n \div 10) \o <<DigitChars[(n % 10) + 1]>>

\* f"{n:02d}" for n >= 0
Pad2(n) == IF n < 10 THEN <<"0">> \o Dec(n) ELSE Dec(n)

\* str.upper() on the letters that occur in the inputs
UpperChar(c) ==
    CASE c = "a" -> "A"
      [] c = "m" -> "M"
      [] c = "p" -> "P"
      [] c = "x" -> "X"
      [] OTHER -> c

Upper(s) == [i \in 1..Len(s) |-> UpperChar(s[i])]

IsSpace(c) == c = " "

\* str.strip()
RECURSIVE LStrip(_)
LStrip(s) ==
    IF s # <<>> /\ IsSpace(s[1]) THEN LStrip(Tail(s)) ELSE s

RECURSIVE RStrip(_)
RStrip(s) ==
    IF s # <<>> /\ IsSpace(s[Len(s)]) THEN RStrip(SubSeq(s, 1, Len(s) - 1))
    ELSE s

Strip(s) == RStrip(LStrip(s))

\* s.split(':'): the parts between the colons
RECURSIVE SplitColon(_)
SplitColon(s) ==
    IF \A i \in 1..Len(s) : s[i] # ":" THEN <<s>>
    ELSE LET k == CHOOSE i \in 1..Len(s) :
                      s[i] = ":" /\ \A j \in 1..(i - 1) : s[j] # ":"
         IN  <<SubSeq(s, 1, k - 1)>> \o SplitColon(SubSeq(s, k + 1, Len(s)))

\* number of leading decimal digits of s
RECURSIVE LeadDigits(_)
LeadDigits(s) ==
    IF s # <<>> /\ IsDigit(s[1]) THEN 1 + LeadDigits(Tail(s)) ELSE 0

\* "hour, minute = map(int, t.split(':'))" raises unless there are exactly
\* two parts and both are numerals
HourMinuteRaises(t) ==
    LET parts == SplitColon(t)
    IN  Len(parts) # 2 \/ IntRaises(parts[1]) \/ IntRaises(parts[2])

HourOf(t) == IntOf(SplitColon(t)[1])

MinuteOf(t) == IntOf(SplitColon(t)[2])

-----------------------------------------------------------------------------
(* bot/commands.py: time helpers                                           *)

\* Python None for a time string; "not time_24h" is true of it
NoTime == <<>>

HalfDay == 12

\* format_time_ampm: 24-hour "HH:MM" to "H:MM AM|PM"; the input unchanged
\* when it cannot be split into two numbers
format_time_ampm(time_24h) ==
    IF HourMinuteRaises(time_24h) THEN time_24h
    ELSE LET hour   == HourOf(time_24h)
             minute == MinuteOf(time_24h)
             period == IF hour < HalfDay THEN <<"A", "M">> ELSE <<"P", "M">>
             h12    == IF hour % HalfDay = 0 THEN HalfDay ELSE hour % HalfDay
         IN  Dec(h12) \o <<":">> \o Pad2(minute) \o <<" ">> \o period

\* re.match(r"(\d{1,2}):(\d{2})\s*(AM|PM)", s): anchored at the start only.
\* The result is <<>> for no match, else <<hour, minute, period>>.
MatchAmPm(s) ==
    LET k == LeadDigits(s)
    IN  IF ~(k \in {1, 2}) THEN <<>>
        ELSE IF Len(s) < k + 3 THEN <<>>
        ELSE IF s[k + 1] # ":" \/ ~IsDigit(s[k + 2]) \/ ~IsDigit(s[k + 3])
             THEN <<>>
        ELSE LET rest == LStrip(SubSeq(s, k + 4, Len(s)))
             IN  IF Len(rest) >= 2 /\ rest[1] \in {"A", "P"} /\ rest[2] = "M"
                 THEN <<SubSeq(s, 1, k), SubSeq(s, k + 2, k + 3),
                        SubSeq(rest, 1, 2)>>
                 ELSE <<>>

\* parse_time_ampm without the "12 AM is hour 0" branch of lines 81-82
parse_time_ampm_NoMidnight(time_ampm) ==
    LET m == MatchAmPm(Upper(time_ampm))
    IN  IF m = <<>> THEN NoTime
        ELSE LET hour   == IntOf(m[1])
                 minute == IntOf(m[2])
                 h24    == IF m[3] = <<"P", "M">> /\ hour < HalfDay
                               THEN hour + HalfDay
                           ELSE hour
             IN  Pad2(h24) \o <<":">> \o Pad2(minute)

\* parse_time_ampm without the "PM adds 12" branch of lines 79-80
parse_time_ampm_NoPm(time_ampm) ==
    LET m == MatchAmPm(Upper(time_ampm))
    IN  IF m = <<>> THEN NoTime
        ELSE LET hour   == IntOf(m[1])
                 minute == IntOf(m[2])
                 h24    == IF m[3] = <<"A", "M">> /\ hour = HalfDay
                               THEN 0
                           ELSE hour
             IN  Pad2(h24) \o <<":">> \o Pad2(minute)

\* parse_time_ampm: "H:MM AM|PM" to 24-hour "HH:MM", or None
parse_time_ampm(time_ampm) ==
    LET m == MatchAmPm(Upper(time_ampm))
    IN  IF m = <<>> THEN NoTime
        ELSE LET hour   == IntOf(m[1])
                 minute == IntOf(m[2])
                 h24    == IF m[3] = <<"P", "M">> /\ hour < HalfDay
                               THEN hour + HalfDay
                           ELSE IF m[3] = <<"A", "M">> /\ hour = HalfDay
                               THEN 0
                           ELSE hour
             IN  Pad2(h24) \o <<":">> \o Pad2(minute)

HoursPerDay == 24

MinutesPerHour == 60

\* re.match(r"^\d{1,2}:\d{2}$", s)
Match24h(s) ==
    LET k == LeadDigits(s)
    IN  /\ k \in {1, 2}
        /\ Len(s) = k + 3
        /\ s[k + 1] = ":"
        /\ IsDigit(s[k + 2])
        /\ IsDigit(s[k + 3])

\* time_input, lines 424-437: the time the draft will hold, or None
ParseTimeInput(text) ==
    LET time_input == Strip(text)
        ampm       == parse_time_ampm(time_input)
    IN  IF ampm # NoTime THEN ampm
        ELSE IF Match24h(time_input)
                /\ HourOf(time_input) < HoursPerDay
                /\ MinuteOf(time_input) < MinutesPerHour
             THEN Pad2(HourOf(time_input)) \o <<":">> \o Pad2(MinuteOf(time_input))
        ELSE NoTime

\* the canonical stored form of hour h, minute m
Canonical(h, m) == Pad2(h) \o <<":">> \o Pad2(m)

-----------------------------------------------------------------------------
(* Bounds of the model and the inputs the operators may type               *)

\* Telegram user ids 1..NumUsers; every id is non-zero
NumUsers == 2

UserIds == 1..NumUsers

\* the first user to /start is made admin (handlers.py start)
FirstAdmin == 1

\* how many /setschedule conversations one run may open
MaxSessions == 2

\* sub-minute positions of the wall clock: a minute has this many slots
SlotsPerMinute == 2

\* how many users the users collection may hold when a broadcast is studied
MaxRecipients == 3

RecipientIds == 1..MaxRecipients

\* free text an operator may type as the announcement body
Messages == {"Daily reminder", "Weekly update"}

\* what an operator may type in TYPING_TIME, with the time of day the text
\* denotes (valid = FALSE: it denotes none)
TimeInputs ==
    << [text |-> <<"9", ":", "0", "0", " ", "A", "M">>,
        valid |-> TRUE, h |-> 9, m |-> 0],
       [text |-> <<"2", ":", "3", "0", " ", "p", "m">>,
        valid |-> TRUE, h |-> 14, m |-> 30],
       [text |-> <<" ", "1", "4", ":", "3", "0">>,
        valid |-> TRUE, h |-> 14, m |-> 30],
       [text |-> <<"2", "5", ":", "0", "0">>,
        valid |-> FALSE, h |-> 0, m |-> 0],
       [text |-> <<"2", "5", ":", "0", "0", " ", "P", "M">>,
        valid |-> FALSE, h |-> 0, m |-> 0],
       [text |-> <<"9", ":", "0">>,
        valid |-> FALSE, h |-> 0, m |-> 0] >>

\* callback data of the weekday buttons, pattern "^[0-6]$"
DaysPerWeek == 7

\* the buttons the operators of the model press: Sunday, Monday, Saturday
DayInputs == {0, 1, DaysPerWeek - 1}

-----------------------------------------------------------------------------
(* bot/database.py: the settings store                                     *)

\* markers for a key that a document or a dict does not hold (Python None)
NoDay == -1

NoText == "<none>"

DEFAULT_DAILY_TIME == <<"0", "9", ":", "0", "0">>

DEFAULT_WEEKLY_TIME == <<"1", "0", ":", "0", "0">>

DEFAULT_WEEKLY_DAY == 1

DEFAULT_DAILY_TEXT == "Daily community reminder!"

DEFAULT_WEEKLY_TEXT == "Weekly community update!"

\* _initialize_defaults: the document inserted into an empty collection
DefaultSettings ==
    [daily_time  |-> DEFAULT_DAILY_TIME,
     weekly_time |-> DEFAULT_WEEKLY_TIME,
     weekly_day  |-> DEFAULT_WEEKLY_DAY,
     messages    |-> [daily |-> DEFAULT_DAILY_TEXT, weekly |-> DEFAULT_WEEKLY_TEXT]]

\* a document none of whose keys is set
EmptyDoc ==
    [daily_time  |-> NoTime,
     weekly_time |-> NoTime,
     weekly_day  |-> NoDay,
     messages    |-> [daily |-> NoText, weekly |-> NoText]]

\* _initialize_defaults inserting its document without counting first
initialize_defaults_NoCount(coll, inserted) ==
    IF inserted THEN Append(coll, DefaultSettings) ELSE coll

\* _initialize_defaults on a connected store: the default document is
\* inserted when the collection holds none; inserted = FALSE: the insert
\* raised or returned no id
initialize_defaults(coll, inserted) ==
    IF coll = <<>> /\ inserted THEN <<DefaultSettings>> ELSE coll

\* get_schedule_settings: {} (here: no key set) when the store is down or
\* holds no document, else the three keys with their defaults
get_schedule_settings(coll) ==
    IF ~dbUp \/ coll = <<>> THEN
        [daily_time |-> NoTime, weekly_time |-> NoTime, weekly_day |-> NoDay]
    ELSE LET doc == coll[1]
         IN  [daily_time  |-> IF doc.daily_time = NoTime
                              THEN DEFAULT_DAILY_TIME ELSE doc.daily_time,
              weekly_time |-> IF doc.weekly_time = NoTime
                              THEN DEFAULT_WEEKLY_TIME ELSE doc.weekly_time,
              weekly_day  |-> IF doc.weekly_day = NoDay
                              THEN DEFAULT_WEEKLY_DAY ELSE doc.weekly_day]

\* get_announcement_messages: the messages dict, {} when absent
get_announcement_messages(coll) ==
    IF ~dbUp \/ coll = <<>> THEN [daily |-> NoText, weekly |-> NoText]
    ELSE coll[1].messages

\* UpdateData building the messages dict from scratch instead of from the
\* stored one (lines 344-345 left out)
UpdateData_FreshMessages(coll, daily_time, weekly_day, weekly_time, daily_message, weekly_message) ==
    [daily_time  |-> daily_time,
     weekly_day  |-> weekly_day,
     weekly_time |-> weekly_time,
     messages    |-> [daily |-> daily_message, weekly |-> weekly_message],
     has_messages |-> daily_message # NoText \/ weekly_message # NoText]

\* update_schedule_settings, lines 333-352: the $set document
UpdateData(coll, daily_time, weekly_day, weekly_time, daily_message, weekly_message) ==
    LET current  == IF coll = <<>> THEN [daily |-> NoText, weekly |-> NoText]
                    ELSE coll[1].messages
        messages == [daily  |-> IF daily_message # NoText
                                THEN daily_message ELSE current.daily,
                     weekly |-> IF weekly_message # NoText
                                THEN weekly_message ELSE current.weekly]
    IN  [daily_time  |-> daily_time,
         weekly_day  |-> weekly_day,
         weekly_time |-> weekly_time,
         messages    |-> IF daily_message # NoText \/ weekly_message # NoText
                         THEN messages
                         ELSE [daily |-> NoText, weekly |-> NoText],
         has_messages |-> daily_message # NoText \/ weekly_message # NoText]

\* ApplySet replacing the document by the update instead of merging into it
ApplySet_Replace(coll, upd) ==
    LET new == [daily_time  |-> upd.daily_time,
                weekly_time |-> upd.weekly_time,
                weekly_day  |-> upd.weekly_day,
                messages    |-> upd.messages]
    IN  IF coll = <<>> THEN <<new>> ELSE <<new>> \o Tail(coll)

\* update_one({}, {"$set": update_data}, upsert=True) on the collection
ApplySet(coll, upd) ==
    LET old == IF coll = <<>> THEN EmptyDoc ELSE coll[1]
        new == [daily_time  |-> IF upd.daily_time # NoTime
                                THEN upd.daily_time ELSE old.daily_time,
                weekly_time |-> IF upd.weekly_time # NoTime
                                THEN upd.weekly_time ELSE old.weekly_time,
                weekly_day  |-> IF upd.weekly_day # NoDay
                                THEN upd.weekly_day ELSE old.weekly_day,
                messages    |-> IF upd.has_messages
                                THEN upd.messages ELSE old.messages]
    IN  IF coll = <<>> THEN <<new>> ELSE <<new>> \o Tail(coll)

\* update_schedule_settings where the driver raises after the document has
\* been written
update_schedule_settings_WriteThenRaise(coll, daily_time, weekly_day, weekly_time, daily_message, weekly_message, raises) ==
    LET upd   == UpdateData(coll, daily_time, weekly_day, weekly_time,
                            daily_message, weekly_message)
        after == ApplySet(coll, upd)
        some  == daily_time # NoTime \/ weekly_day # NoDay \/ weekly_time # NoTime
                 \/ upd.has_messages
    IN  IF ~dbUp \/ ~some THEN [coll |-> coll, ok |-> FALSE]
        ELSE IF raises THEN [coll |-> after, ok |-> FALSE]
        ELSE [coll |-> after,
              ok   |-> coll = <<>> \/ after # coll]

\* update_schedule_settings: the collection afterwards and the returned flag.
\* raises: the driver raised inside the try block (nothing is written)
update_schedule_settings(coll, daily_time, weekly_day, weekly_time, daily_message, weekly_message, raises) ==
    LET upd   == UpdateData(coll, daily_time, weekly_day, weekly_time,
                            daily_message, weekly_message)
        after == ApplySet(coll, upd)
        some  == daily_time # NoTime \/ weekly_day # NoDay \/ weekly_time # NoTime
                 \/ upd.has_messages
    IN  IF ~dbUp \/ raises \/ ~some THEN [coll |-> coll, ok |-> FALSE]
        ELSE [coll |-> after,
              ok   |-> coll = <<>> \/ after # coll]

-----------------------------------------------------------------------------
(* bot/scheduler.py: the job registry                                      *)

DAILY_JOB == "daily_announcement"

WEEKLY_JOB == "weekly_announcement"

\* datetime.time(hour=h, minute=m) raises ValueError outside these ranges
TimeObjRaises(h, m) == ~(h < HoursPerDay /\ m < MinutesPerHour)

\* a time string from which lines 29-30 / 47-48 cannot build a time object
CannotSchedule(t) ==
    HourMinuteRaises(t) \/ TimeObjRaises(HourOf(t), MinuteOf(t))

\* the wall clock counts slots; a weekly trigger looks at the slot of the
\* week, the daily callback at the slot of the day
SlotsPerDay == HoursPerDay * MinutesPerHour * SlotsPerMinute

SlotsPerWeek == DaysPerWeek * SlotsPerDay

\* job_queue.run_repeating(daily_announcement, interval=60, first=0, name=...):
\* the first run is due at once
RepeatingJob(at) ==
    [name |-> DAILY_JOB, next |-> at % SlotsPerDay, day |-> NoDay,
     hour |-> 0, minute |-> 0]

\* the slot of the week at which weekday day, hour h, minute m begins
OccurrenceSlot(day, h, m) ==
    day * SlotsPerDay + (h * MinutesPerHour + m) * SlotsPerMinute

\* the weekday on which the trigger of run_daily(..., days=(d,)) runs, d
\* from 0: the job queue counts the days of the week from Sunday
TriggerDayNames ==
    <<"Sunday", "Monday", "Tuesday", "Wednesday", "Thursday", "Friday",
      "Saturday">>

\* the trigger of run_daily looking at the time only: every day
NextOccurrence_AnyDay(day, h, m, at) ==
    LET s == OccurrenceSlot(at \div SlotsPerDay, h, m)
    IN  IF s > at THEN s ELSE s + SlotsPerDay

\* the first run time of the trigger of run_daily(time, days=(day,)) for a
\* job registered during slot at: the next beginning of that weekday, hour
\* and minute, this week or the week after
NextOccurrence(day, h, m, at) ==
    LET s == OccurrenceSlot(day, h, m)
    IN  IF s > at THEN s ELSE s + SlotsPerWeek

\* job_queue.run_daily(weekly_announcement, time=..., days=(weekly_day,), name=...)
WeeklyJobOf(weekly_day, weekly_time, at) ==
    [name |-> WEEKLY_JOB,
     next |-> NextOccurrence(weekly_day, HourOf(weekly_time),
                             MinuteOf(weekly_time), at),
     day |-> weekly_day,
     hour |-> HourOf(weekly_time), minute |-> MinuteOf(weekly_time)]

\* setup_scheduler: the registry afterwards, starting from registry q, with
\* the settings collection coll, at wall-clock slot at
setup_scheduler(q, coll, at) ==
    IF ~jobQueue THEN q
    ELSE LET st          == get_schedule_settings(coll)
             daily_time  == IF st.daily_time = NoTime
                            THEN DEFAULT_DAILY_TIME ELSE st.daily_time
             weekly_time == IF st.weekly_time = NoTime
                            THEN DEFAULT_WEEKLY_TIME ELSE st.weekly_time
             weekly_day  == IF st.weekly_day = NoDay
                            THEN DEFAULT_WEEKLY_DAY ELSE st.weekly_day
             q1 == IF CannotSchedule(daily_time) THEN q
                   ELSE Append(q, RepeatingJob(at))
         IN  IF CannotSchedule(weekly_time) THEN q1
             ELSE Append(q1, WeeklyJobOf(weekly_day, weekly_time, at))

IsAnnouncementJob(job) == job.name \in {DAILY_JOB, WEEKLY_JOB}

\* the removal loop looking for the daily job only
RemoveAnnouncementJobs_DailyOnly(q) ==
    SelectSeq(q, LAMBDA job : job.name # DAILY_JOB)

\* reschedule_jobs, lines 66-69: job.schedule_removal() on the named jobs
RemoveAnnouncementJobs(q) == SelectSeq(q, LAMBDA job : ~IsAnnouncementJob(job))

\* reschedule_jobs reporting success also when the job queue is missing
reschedule_jobs_AlwaysTrue(q, coll, at) ==
    IF ~jobQueue THEN [jobs |-> q, ok |-> TRUE]
    ELSE [jobs |-> setup_scheduler(RemoveAnnouncementJobs(q), coll, at),
          ok   |-> TRUE]

\* reschedule_jobs returning after the removals, the registrations left to
\* a later moment
reschedule_jobs_RemoveOnly(q, coll, at) ==
    IF ~jobQueue THEN [jobs |-> q, ok |-> FALSE]
    ELSE [jobs |-> RemoveAnnouncementJobs(q), ok |-> TRUE]

\* reschedule_jobs: the registry afterwards and the returned flag; with no
\* job queue the call of job_queue.jobs() raises and False is returned
reschedule_jobs(q, coll, at) ==
    IF ~jobQueue THEN [jobs |-> q, ok |-> FALSE]
    ELSE [jobs |-> setup_scheduler(RemoveAnnouncementJobs(q), coll, at),
          ok   |-> TRUE]

\* the registry after the removal loop of reschedule_jobs has removed the
\* first n of the named jobs
RECURSIVE RemoveNamed(_, _)
RemoveNamed(q, n) ==
    IF q = <<>> \/ n = 0 THEN q
    ELSE IF IsAnnouncementJob(Head(q)) THEN RemoveNamed(Tail(q), n - 1)
    ELSE <<Head(q)>> \o RemoveNamed(Tail(q), n)

\* reschedule_jobs when a statement of its try block raises after the loop
\* has removed n of the named jobs (n = all of them: the exception comes out
\* of setup_scheduler before its first registration): the except clause
\* returns False, nothing is put back
reschedule_jobs_raises(q, n) == [jobs |-> RemoveNamed(q, n), ok |-> FALSE]

\* number of registered jobs with the given name
JobCount(name) == Cardinality({i \in 1..Len(jobs) : jobs[i].name = name})

-----------------------------------------------------------------------------
(* bot/commands.py: the /setschedule conversation                          *)

END == -1

CHOOSING_SCHEDULE_TYPE == 0

TYPING_ANNOUNCEMENT_MESSAGE == 1

TYPING_TIME == 2

TYPING_DAY == 3

CONFIRM_SCHEDULE == 4

DAILY_SCHEDULE == "daily_schedule"

WEEKLY_SCHEDULE == "weekly_schedule"

CONFIRM_SCHEDULE_UPDATE == "confirm_schedule"

CANCEL_SCHEDULE_UPDATE == "cancel_schedule"

NoType == "<none>"

\* an empty context.user_data
EmptyUserData ==
    [schedule_type |-> NoType, announcement_message |-> NoText,
     time |-> NoTime, day |-> NoDay, announcement_text |-> NoText]

\* the texts the bot shows the operator
R_NONE == "<nothing yet>"

R_DENIED == "Access Denied"

R_SELECT_TYPE == "Please select the type"

R_ENTER_MESSAGE == "Please enter the message"

R_ENTER_TIME == "Please enter the time"

R_INVALID_TIME == "Invalid time format"

R_SELECT_DAY == "Please select the day"

R_SUMMARY == "Do you want to save these settings?"

R_OP_CANCELLED == "Operation cancelled"

R_UPDATE_CANCELLED == "Schedule update cancelled"

R_UPDATED == "Schedule settings updated successfully"

R_SAVED_NOT_RESCHEDULED == "Settings saved but failed to reschedule jobs"

R_FAILED == "Failed to update schedule settings"

\* update.effective_user.id of an update handled under conversation key k
UserOf(k) == chatUser[k]

\* is_admin / db_manager.is_admin
is_admin(u) == dbUp /\ u \in admins

\* the parts of the state the conversation never touches
ConvFrame == UNCHANGED <<started, jobQueue, dbUp, users, admins, now, bc, rt,
                   chatUser, adminConv>>

\* main(): setup_scheduler(application), then run_polling()
Main ==
    /\ ~started
    /\ started' = TRUE
    /\ jobs' = setup_scheduler(jobs, settings, now)
    /\ UNCHANGED <<jobQueue, dbUp, settings, users, admins, conv, userData,
                   reply, now, bc, hist, rt,
                   chatUser, adminConv>>

\* set_schedule_command: entry point, taken when no conversation is open
set_schedule_command(u) ==
    /\ started
    /\ conv[u] = END
    /\ hist.sessions < MaxSessions
    /\ IF ~is_admin(UserOf(u))
       THEN /\ reply' = [reply EXCEPT ![u] = R_DENIED]
            /\ UNCHANGED <<conv, hist>>
       ELSE /\ reply' = [reply EXCEPT ![u] = R_SELECT_TYPE]
            /\ conv' = [conv EXCEPT ![u] = CHOOSING_SCHEDULE_TYPE]
            /\ hist' = [hist EXCEPT !.sessions = @ + 1,
                                    !.entered[u] = 0,
                                    !.typed[u] = EmptyUserData,
                                    !.atStart[u] = settings,
                                    !.jobsAtStart[u] = jobs]
    /\ UNCHANGED <<settings, jobs, userData>>
    /\ ConvFrame

\* schedule_type_selection
schedule_type_selection(u, data) ==
    /\ conv[u] = CHOOSING_SCHEDULE_TYPE
    /\ userData' = [userData EXCEPT ![UserOf(u)].schedule_type = data]
    /\ hist' = [hist EXCEPT !.typed[u].schedule_type = data]
    /\ reply' = [reply EXCEPT ![u] = R_ENTER_MESSAGE]
    /\ conv' = [conv EXCEPT ![u] = TYPING_ANNOUNCEMENT_MESSAGE]
    /\ UNCHANGED <<settings, jobs>>
    /\ ConvFrame

\* announcement_message_input
announcement_message_input(u, text) ==
    /\ conv[u] = TYPING_ANNOUNCEMENT_MESSAGE
    /\ userData' = [userData EXCEPT ![UserOf(u)].announcement_message = text]
    /\ hist' = [hist EXCEPT !.typed[u].announcement_message = text]
    /\ reply' = [reply EXCEPT ![u] = R_ENTER_TIME]
    /\ conv' = [conv EXCEPT ![u] = TYPING_TIME]
    /\ UNCHANGED <<settings, jobs>>
    /\ ConvFrame

\* time_input, lines 450-464: the weekday keyboard, each button with its
\* label and its callback_data
WeekdayButtons ==
    << [label |-> "Monday",    callback_data |-> <<"1">>],
       [label |-> "Tuesday",   callback_data |-> <<"2">>],
       [label |-> "Wednesday", callback_data |-> <<"3">>],
       [label |-> "Thursday",  callback_data |-> <<"4">>],
       [label |-> "Friday",    callback_data |-> <<"5">>],
       [label |-> "Saturday",  callback_data |-> <<"6">>],
       [label |-> "Sunday",    callback_data |-> <<"0">> ] >>

\* the list of names of the summary starting with Monday
day_names_MondayFirst ==
    <<"Monday", "Tuesday", "Wednesday", "Thursday", "Friday", "Saturday",
      "Sunday">>

\* show_schedule_confirmation, line 508
day_names ==
    <<"Sunday", "Monday", "Tuesday", "Wednesday", "Thursday", "Friday",
      "Saturday">>

\* show_schedule_confirmation, line 509: day_name = day_names[day]
SummaryDayName(u) == day_names[userData[UserOf(u)].day + 1]

\* time_input going to the confirmation summary whatever the schedule type
time_input_SkipDay(u, i) ==
    /\ conv[u] = TYPING_TIME
    /\ LET time_24h == ParseTimeInput(TimeInputs[i].text)
       IN  IF time_24h = NoTime
           THEN /\ reply' = [reply EXCEPT ![u] = R_INVALID_TIME]
                /\ UNCHANGED <<conv, userData, hist>>
           ELSE /\ userData' = [userData EXCEPT ![UserOf(u)].time = time_24h]
                /\ hist' = [hist EXCEPT !.entered[u] = i,
                                        !.typed[u].time = time_24h]
                /\ reply' = [reply EXCEPT ![u] = R_SUMMARY]
                /\ conv' = [conv EXCEPT ![u] = CONFIRM_SCHEDULE]
    /\ UNCHANGED <<settings, jobs>>
    /\ ConvFrame

\* time_input; i is the position in TimeInputs of what the operator typed
time_input(u, i) ==
    /\ conv[u] = TYPING_TIME
    /\ LET time_24h == ParseTimeInput(TimeInputs[i].text)
       IN  IF time_24h = NoTime
           THEN /\ reply' = [reply EXCEPT ![u] = R_INVALID_TIME]
                /\ UNCHANGED <<conv, userData, hist>>
           ELSE /\ userData' = [userData EXCEPT ![UserOf(u)].time = time_24h]
                /\ hist' = [hist EXCEPT !.entered[u] = i,
                                        !.typed[u].time = time_24h]
                /\ IF userData[UserOf(u)].schedule_type = WEEKLY_SCHEDULE
                   THEN /\ reply' = [reply EXCEPT ![u] = R_SELECT_DAY]
                        /\ conv' = [conv EXCEPT ![u] = TYPING_DAY]
                   ELSE /\ reply' = [reply EXCEPT ![u] = R_SUMMARY]
                        /\ conv' = [conv EXCEPT ![u] = CONFIRM_SCHEDULE]
    /\ UNCHANGED <<settings, jobs>>
    /\ ConvFrame

\* day_input keeping a day already in context.user_data
day_input_KeepOld(u, d) ==
    /\ conv[u] = TYPING_DAY
    /\ userData' = [userData EXCEPT ![UserOf(u)].day =
                        IF @ = NoDay THEN d ELSE @]
    /\ hist' = [hist EXCEPT !.typed[u].day = d]
    /\ reply' = [reply EXCEPT ![u] = R_SUMMARY]
    /\ conv' = [conv EXCEPT ![u] = CONFIRM_SCHEDULE]
    /\ UNCHANGED <<settings, jobs>>
    /\ ConvFrame

\* day_input
day_input(u, d) ==
    /\ conv[u] = TYPING_DAY
    /\ userData' = [userData EXCEPT ![UserOf(u)].day = d]
    /\ hist' = [hist EXCEPT !.typed[u].day = d]
    /\ reply' = [reply EXCEPT ![u] = R_SUMMARY]
    /\ conv' = [conv EXCEPT ![u] = CONFIRM_SCHEDULE]
    /\ UNCHANGED <<settings, jobs>>
    /\ ConvFrame

\* cancel: the /cancel fallback, accepted in every state of the conversation
cancel(u) ==
    /\ conv[u] # END
    /\ reply' = [reply EXCEPT ![u] = R_OP_CANCELLED]
    /\ conv' = [conv EXCEPT ![u] = END]
    /\ UNCHANGED <<settings, jobs, userData, hist>>
    /\ ConvFrame

\* schedule_confirmation, lines 556-568: the write the draft asks for
ConfirmWrite(u, raises) ==
    IF userData[UserOf(u)].schedule_type = DAILY_SCHEDULE
    THEN update_schedule_settings(settings, userData[UserOf(u)].time, NoDay, NoTime,
                                  userData[UserOf(u)].announcement_message, NoText,
                                  raises)
    ELSE update_schedule_settings(settings, NoTime, userData[UserOf(u)].day,
                                  userData[UserOf(u)].time,
                                  NoText, userData[UserOf(u)].announcement_message,
                                  raises)

\* schedule_confirmation writing the draft before it looks at the button
schedule_confirmation_WriteFirst(u, data, raises) ==
    /\ conv[u] = CONFIRM_SCHEDULE
    /\ conv' = [conv EXCEPT ![u] = END]
    /\ LET w == ConfirmWrite(u, raises)
       IN  /\ settings' = w.coll
           /\ IF data = CANCEL_SCHEDULE_UPDATE
              THEN /\ reply' = [reply EXCEPT ![u] = R_UPDATE_CANCELLED]
                   /\ UNCHANGED <<jobs, hist>>
              ELSE IF w.ok
              THEN LET r == reschedule_jobs(jobs, w.coll, now)
                   IN  /\ jobs' = r.jobs
                       /\ hist' = [hist EXCEPT !.reschedules = @ + 1]
                       /\ reply' = [reply EXCEPT ![u] =
                              IF r.ok THEN R_UPDATED
                              ELSE R_SAVED_NOT_RESCHEDULED]
              ELSE /\ reply' = [reply EXCEPT ![u] = R_FAILED]
                   /\ UNCHANGED <<jobs, hist>>
    /\ UNCHANGED userData
    /\ ConvFrame

\* schedule_confirmation calling reschedule_jobs as soon as Confirm is
\* pressed, before the write
schedule_confirmation_RescheduleFirst(u, data, raises) ==
    /\ conv[u] = CONFIRM_SCHEDULE
    /\ conv' = [conv EXCEPT ![u] = END]
    /\ IF data = CANCEL_SCHEDULE_UPDATE
       THEN /\ reply' = [reply EXCEPT ![u] = R_UPDATE_CANCELLED]
            /\ UNCHANGED <<settings, jobs, hist>>
       ELSE LET r == reschedule_jobs(jobs, settings, now)
                w == ConfirmWrite(u, raises)
            IN  /\ jobs' = r.jobs
                /\ hist' = [hist EXCEPT !.reschedules = @ + 1]
                /\ settings' = w.coll
                /\ reply' = [reply EXCEPT ![u] =
                       IF ~w.ok THEN R_FAILED
                       ELSE IF r.ok THEN R_UPDATED
                       ELSE R_SAVED_NOT_RESCHEDULED]
    /\ UNCHANGED userData
    /\ ConvFrame

\* schedule_confirmation, line 546: the Cancel button was pressed
IsCancel(data) == data = CANCEL_SCHEDULE_UPDATE

\* schedule_confirmation; data is the button pressed, raises whether the
\* store raises during the write
schedule_confirmation(u, data, raises) ==
    /\ conv[u] = CONFIRM_SCHEDULE
    /\ conv' = [conv EXCEPT ![u] = END]
    /\ IF IsCancel(data)
       THEN /\ reply' = [reply EXCEPT ![u] = R_UPDATE_CANCELLED]
            /\ UNCHANGED <<settings, jobs, hist>>
       ELSE LET w == ConfirmWrite(u, raises)
            IN  /\ settings' = w.coll
                /\ IF w.ok
                   THEN LET r == reschedule_jobs(jobs, w.coll, now)
                        IN  /\ jobs' = r.jobs
                            /\ hist' = [hist EXCEPT !.reschedules = @ + 1]
                            /\ reply' = [reply EXCEPT ![u] =
                                   IF r.ok THEN R_UPDATED
                                   ELSE R_SAVED_NOT_RESCHEDULED]
                   ELSE /\ reply' = [reply EXCEPT ![u] = R_FAILED]
                        /\ UNCHANGED <<jobs, hist>>
    /\ UNCHANGED userData
    /\ ConvFrame

-----------------------------------------------------------------------------
(* bot/utils.py: the broadcast loops                                       *)

\* who runs a broadcast loop: a caller of broadcast_message, or one of the
\* two job callbacks through send_scheduled_announcement
BROADCAST_MESSAGE == "broadcast_message"

\* the loop of its own that announcement_confirmation runs
ANNOUNCEMENT == "announcement_confirmation"

Origins == {BROADCAST_MESSAGE, DAILY_JOB, WEEKLY_JOB, ANNOUNCEMENT}

IdleLoop ==
    [pc |-> "idle", text |-> NoText, snapshot |-> <<>>, i |-> 0,
     success_count |-> 0, failure_count |-> 0, sent |-> <<>>]

\* db_manager.get_all_users(): the user documents, [] when the store is down
get_all_users == IF dbUp THEN users ELSE <<>>

\* lines 52-55 / 26-28: read the recipients once and zero the counters
StartLoop(text) ==
    [pc |-> "loop", text |-> text, snapshot |-> get_all_users, i |-> 1,
     success_count |-> 0, failure_count |-> 0, sent |-> <<>>]

\* LoopStep leaving the loop at the first send that raises
LoopStep_AbortOnFailure(b, ok) ==
    LET user_id == b.snapshot[b.i]
    IN  IF ok
        THEN [b EXCEPT !.i = @ + 1,
                       !.success_count = @ + 1,
                       !.sent = Append(@, [to |-> user_id, text |-> b.text,
                                           ok |-> ok])]
        ELSE [b EXCEPT !.i = Len(b.snapshot) + 1,
                       !.failure_count = @ + 1,
                       !.sent = Append(@, [to |-> user_id, text |-> b.text,
                                           ok |-> ok])]

\* LoopStep with the failure counter left alone when a send raises
LoopStep_FailureUncounted(b, ok) ==
    LET user_id == b.snapshot[b.i]
    IN  [b EXCEPT !.i = @ + 1,
                  !.success_count = IF ok THEN @ + 1 ELSE @,
                  !.sent = Append(@, [to |-> user_id, text |-> b.text,
                                      ok |-> ok])]

\* LoopStep reading the users collection again at every pass
LoopStep_LiveList(b, ok) ==
    LET live    == get_all_users
        user_id == live[b.i]
    IN  [b EXCEPT !.snapshot = live,
                  !.i = @ + 1,
                  !.success_count = IF ok THEN @ + 1 ELSE @,
                  !.failure_count = IF ok THEN @ ELSE @ + 1,
                  !.sent = Append(@, [to |-> user_id, text |-> b.text,
                                      ok |-> ok])]

\* LoopStep sending the daily message the store holds at the time of the
\* send instead of the text the loop started with
LoopStep_LiveText(b, ok) ==
    LET user_id == b.snapshot[b.i]
        live    == get_announcement_messages(settings).daily
    IN  [b EXCEPT !.i = @ + 1,
                  !.success_count = IF ok THEN @ + 1 ELSE @,
                  !.failure_count = IF ok THEN @ ELSE @ + 1,
                  !.sent = Append(@, [to |-> user_id, text |-> live,
                                      ok |-> ok])]

\* one pass of "for user in users": ok is whether bot.send_message returned
\* (TRUE) or raised (FALSE); a document without a user id is skipped
LoopStep(b, ok) ==
    LET user_id == b.snapshot[b.i]
    IN  IF user_id = 0 THEN [b EXCEPT !.i = @ + 1]
        ELSE [b EXCEPT !.i = @ + 1,
                       !.success_count = IF ok THEN @ + 1 ELSE @,
                       !.failure_count = IF ok THEN @ ELSE @ + 1,
                       !.sent = Append(@, [to |-> user_id, text |-> b.text,
                                           ok |-> ok])]

\* the parts of the state a broadcast loop never touches
LoopFrame ==
    UNCHANGED <<started, jobQueue, dbUp, settings, users, admins, jobs, conv,
                userData, reply, now, hist, rt,
                   chatUser, adminConv>>

\* broadcast_message(context, message) is called
broadcast_message(message) ==
    /\ started
    /\ bc[BROADCAST_MESSAGE].pc # "loop"
    /\ bc' = [bc EXCEPT ![BROADCAST_MESSAGE] = StartLoop(message)]
    /\ LoopFrame

\* one send of a loop in flight
send_message(o, ok) ==
    /\ bc[o].pc = "loop"
    /\ bc[o].i <= Len(bc[o].snapshot)
    /\ bc' = [bc EXCEPT ![o] = LoopStep(bc[o], ok)]
    /\ LoopFrame

\* the loop is over: the counts are logged and, by broadcast_message, returned
loop_return(o) ==
    /\ bc[o].pc = "loop"
    /\ bc[o].i > Len(bc[o].snapshot)
    /\ bc' = [bc EXCEPT ![o].pc = "done"]
    /\ LoopFrame

\* the callback of job o is in its loop: between two sends, or waiting for a
\* send that does not return
Running(o) == bc[o].pc \in {"loop", "hung"}

\* schedule_confirmation, lines 570-578, when the write succeeds and
\* reschedule_jobs raises after n removals: the "saved but failed to
\* reschedule" branch
reschedule_raises(u, n) ==
    /\ conv[u] = CONFIRM_SCHEDULE
    /\ jobQueue
    /\ LET w == ConfirmWrite(u, FALSE)
           r == reschedule_jobs_raises(jobs, n)
       IN  /\ w.ok
           /\ settings' = w.coll
           /\ jobs' = r.jobs
    /\ conv' = [conv EXCEPT ![u] = END]
    /\ hist' = [hist EXCEPT !.reschedules = @ + 1]
    /\ reply' = [reply EXCEPT ![u] = R_SAVED_NOT_RESCHEDULED]
    /\ UNCHANGED userData
    /\ ConvFrame

\* bot/handlers.py store_user_data -> db_manager.add_user: a user who talks
\* to the bot is added to the users collection unless already there
store_user_data(u) ==
    /\ started
    /\ dbUp
    /\ \A k \in 1..Len(users) : users[k] # u
    /\ users' = Append(users, u)
    /\ UNCHANGED <<started, jobQueue, dbUp, settings, admins, jobs, conv,
                   userData, reply, now, bc, hist, rt,
                   chatUser, adminConv>>

-----------------------------------------------------------------------------
(* bot/database.py, bot/handlers.py, bot/commands.py: the admins           *)

\* db_manager.add_admin(user_id, added_by): the admins collection afterwards
\* and the returned flag (True also when the user is an admin already)
add_admin(A, user_id) ==
    IF ~dbUp THEN [admins |-> A, ok |-> FALSE]
    ELSE [admins |-> A \cup {user_id}, ok |-> TRUE]

\* db_manager.remove_admin(user_id): delete_one; True iff a document went
remove_admin(A, user_id) ==
    IF ~dbUp THEN [admins |-> A, ok |-> FALSE]
    ELSE [admins |-> A \ {user_id}, ok |-> user_id \in A]

\* handlers.py start: the user is stored, and is made admin when
\* get_all_admins() returns no admin
start(k) ==
    /\ started
    /\ users' = IF dbUp /\ \A i \in 1..Len(users) : users[i] # UserOf(k)
                THEN Append(users, UserOf(k)) ELSE users
    /\ LET a == add_admin(admins, UserOf(k))
       IN  IF (~dbUp \/ admins = {}) /\ a.ok
           THEN /\ admins' = a.admins
                /\ reply' = [reply EXCEPT ![k] = "Welcome! You are the first user"]
           ELSE /\ admins' = admins
                /\ reply' = [reply EXCEPT ![k] = "Welcome to the Community AI Bot!"]
    /\ UNCHANGED <<started, jobQueue, dbUp, settings, jobs, conv, userData, now,
                   bc, hist, rt, chatUser, adminConv>>

TYPING_ADMIN_ID == 0

TYPING_ANNOUNCEMENT == 0

CONFIRM_ANNOUNCEMENT == 1

\* what an admin may type in TYPING_ADMIN_ID: the id of a user, or no number
AdminIdInputs == {Dec(u) : u \in UserIds} \cup {<<"m", "e">>}

\* what the admin conversations leave alone
AdminFrame ==
    UNCHANGED <<started, jobQueue, dbUp, settings, users, jobs, conv, userData,
                now, hist, rt, chatUser>>

\* add_admin_command / remove_admin_command: the entry point of handler h,
\* taken when the handler has no conversation open under key k
admin_command(k, h) ==
    /\ started
    /\ adminConv[k][h] = END
    /\ ~Running(BROADCAST_MESSAGE)
    /\ IF ~is_admin(UserOf(k))
       THEN /\ reply' = [reply EXCEPT ![k] = R_DENIED]
            /\ UNCHANGED adminConv
       ELSE /\ reply' = [reply EXCEPT ![k] = "Please enter the Telegram user ID"]
            /\ adminConv' = [adminConv EXCEPT ![k][h] = TYPING_ADMIN_ID]
    /\ UNCHANGED <<admins, bc>>
    /\ AdminFrame

add_admin_command(k) == admin_command(k, "add_admin")

remove_admin_command(k) == admin_command(k, "remove_admin")

\* admin_id_input: the text typed in TYPING_ADMIN_ID of add_admin_handler
admin_id_input(k, text) ==
    /\ adminConv[k].add_admin = TYPING_ADMIN_ID
    /\ adminConv[k].announce # TYPING_ANNOUNCEMENT
    /\ ~Running(BROADCAST_MESSAGE)
    /\ LET admin_id_text == Strip(text)
           a == add_admin(admins, IntOf(admin_id_text))
       IN  IF IntRaises(admin_id_text)
           THEN /\ reply' = [reply EXCEPT ![k] = "Invalid user ID"]
                /\ UNCHANGED <<adminConv, admins, bc>>
           ELSE /\ adminConv' = [adminConv EXCEPT ![k].add_admin = END]
                /\ admins' = a.admins
                /\ IF a.ok
                   THEN /\ reply' = [reply EXCEPT ![k] = "has been added as an admin"]
                        /\ bc' = [bc EXCEPT ![BROADCAST_MESSAGE] =
                                     StartLoop("ADMIN UPDATE: added")]
                   ELSE /\ reply' = [reply EXCEPT ![k] = "Failed to add user"]
                        /\ UNCHANGED bc
    /\ AdminFrame

\* remove_admin_id_input: the text typed in TYPING_ADMIN_ID of
\* remove_admin_handler (add_admin_handler, registered before it, takes the
\* text when it is waiting for one); after a removal the handler broadcasts
\* the notice and messages the removed admin
remove_admin_id_input(k, text) ==
    /\ adminConv[k].remove_admin = TYPING_ADMIN_ID
    /\ adminConv[k].add_admin = END
    /\ adminConv[k].announce # TYPING_ANNOUNCEMENT
    /\ ~Running(BROADCAST_MESSAGE)
    /\ LET admin_id_text == Strip(text)
           r == remove_admin(admins, IntOf(admin_id_text))
       IN  IF IntRaises(admin_id_text)
           THEN /\ reply' = [reply EXCEPT ![k] = "Invalid user ID"]
                /\ UNCHANGED <<adminConv, admins, bc>>
           ELSE /\ adminConv' = [adminConv EXCEPT ![k].remove_admin = END]
                /\ IF IntOf(admin_id_text) = UserOf(k)
                   THEN /\ reply' = [reply EXCEPT ![k] = "You cannot remove yourself"]
                        /\ UNCHANGED <<admins, bc>>
                   ELSE IF r.ok
                   THEN /\ admins' = r.admins
                        /\ reply' = [reply EXCEPT ![k] = "has been removed from admins"]
                        /\ bc' = [bc EXCEPT ![BROADCAST_MESSAGE] =
                                     StartLoop("ADMIN UPDATE: removed")]
                   ELSE /\ admins' = r.admins
                        /\ reply' = [reply EXCEPT ![k] = "Failed to remove user"]
                        /\ UNCHANGED bc
    /\ AdminFrame

\* cancel as the fallback of handler h
cancel_admin(k, h) ==
    /\ adminConv[k][h] # END
    /\ ~Running(BROADCAST_MESSAGE)
    /\ adminConv' = [adminConv EXCEPT ![k][h] = END]
    /\ reply' = [reply EXCEPT ![k] = R_OP_CANCELLED]
    /\ UNCHANGED <<admins, bc>>
    /\ AdminFrame

-----------------------------------------------------------------------------
(* bot/commands.py: the /announce conversation                             *)

\* f"ANNOUNCEMENT\n\n{announcement_text}": the text of every send
AnnouncementText(t) ==
    IF t = "Daily reminder" THEN "ANNOUNCEMENT: Daily reminder"
    ELSE IF t = "Weekly update" THEN "ANNOUNCEMENT: Weekly update"
    ELSE "ANNOUNCEMENT: "

\* announce_command: the entry point of announcement_handler
announce_command(k) ==
    /\ started
    /\ adminConv[k].announce = END
    /\ ~Running(ANNOUNCEMENT)
    /\ IF ~is_admin(UserOf(k))
       THEN /\ reply' = [reply EXCEPT ![k] = R_DENIED]
            /\ UNCHANGED adminConv
       ELSE /\ reply' = [reply EXCEPT ![k] = "Please enter the announcement"]
            /\ adminConv' = [adminConv EXCEPT ![k].announce = TYPING_ANNOUNCEMENT]
    /\ UNCHANGED <<started, jobQueue, dbUp, settings, users, admins, jobs, conv,
                   userData, now, bc, hist, rt, chatUser>>

\* announcement_input: the text is put into context.user_data and the Send
\* and Cancel buttons are shown
announcement_input(k, text) ==
    /\ adminConv[k].announce = TYPING_ANNOUNCEMENT
    /\ ~Running(ANNOUNCEMENT)
    /\ userData' = [userData EXCEPT ![UserOf(k)].announcement_text = text]
    /\ adminConv' = [adminConv EXCEPT ![k].announce = CONFIRM_ANNOUNCEMENT]
    /\ reply' = [reply EXCEPT ![k] = "Are you sure you want to send"]
    /\ UNCHANGED <<started, jobQueue, dbUp, settings, users, admins, jobs, conv,
                   now, bc, hist, rt, chatUser>>

\* announcement_confirmation starting its loop whichever button was pressed
announcement_confirmation_IgnoresCancel(k, data) ==
    /\ adminConv[k].announce = CONFIRM_ANNOUNCEMENT
    /\ ~Running(ANNOUNCEMENT)
    /\ bc' = [bc EXCEPT ![ANNOUNCEMENT] =
                 StartLoop(AnnouncementText(userData[UserOf(k)].announcement_text))]
    /\ UNCHANGED <<reply, adminConv>>
    /\ UNCHANGED <<started, jobQueue, dbUp, settings, users, admins, jobs, conv,
                   userData, now, hist, rt, chatUser>>

\* announcement_confirmation, lines 146-164: a button of the confirmation is
\* pressed; on Send the handler reads the users and enters its loop, the
\* conversation ending only when the handler returns
announcement_confirmation(k, data) ==
    /\ adminConv[k].announce = CONFIRM_ANNOUNCEMENT
    /\ ~Running(ANNOUNCEMENT)
    /\ IF data = "cancel_announcement"
       THEN /\ reply' = [reply EXCEPT ![k] = "Announcement cancelled."]
            /\ adminConv' = [adminConv EXCEPT ![k].announce = END]
            /\ UNCHANGED bc
       ELSE IF userData[UserOf(k)].announcement_text = NoText
       THEN /\ reply' = [reply EXCEPT ![k] = "Error: No announcement text found."]
            /\ adminConv' = [adminConv EXCEPT ![k].announce = END]
            /\ UNCHANGED bc
       ELSE /\ bc' = [bc EXCEPT ![ANNOUNCEMENT] =
                StartLoop(AnnouncementText(userData[UserOf(k)].announcement_text))]
            /\ UNCHANGED <<reply, adminConv>>
    /\ UNCHANGED <<started, jobQueue, dbUp, settings, users, admins, jobs, conv,
                   userData, now, hist, rt, chatUser>>

\* announcement_confirmation, lines 166-177: one pass of "for user in
\* users"; ok is whether bot.send_message returned or raised
AnnounceStep(b, ok) ==
    LET user_id == b.snapshot[b.i]
    IN  IF user_id = 0 THEN [b EXCEPT !.i = @ + 1]
        ELSE [b EXCEPT !.i = @ + 1,
                       !.success_count = IF ok THEN @ + 1 ELSE @,
                       !.failure_count = IF ok THEN @ ELSE @ + 1,
                       !.sent = Append(@, [to |-> user_id, text |-> b.text,
                                           ok |-> ok])]

\* one send of the loop of announcement_confirmation
announcement_send(ok) ==
    /\ bc[ANNOUNCEMENT].pc = "loop"
    /\ bc[ANNOUNCEMENT].i <= Len(bc[ANNOUNCEMENT].snapshot)
    /\ bc' = [bc EXCEPT ![ANNOUNCEMENT] = AnnounceStep(bc[ANNOUNCEMENT], ok)]
    /\ LoopFrame

\* announcement_confirmation, lines 179-183: after the loop the counts are
\* shown and the conversation ends
announcement_sent(k) ==
    /\ adminConv[k].announce = CONFIRM_ANNOUNCEMENT
    /\ bc[ANNOUNCEMENT].pc = "loop"
    /\ bc[ANNOUNCEMENT].i > Len(bc[ANNOUNCEMENT].snapshot)
    /\ bc' = [bc EXCEPT ![ANNOUNCEMENT].pc = "done"]
    /\ reply' = [reply EXCEPT ![k] = "Announcement sent"]
    /\ adminConv' = [adminConv EXCEPT ![k].announce = END]
    /\ UNCHANGED <<started, jobQueue, dbUp, settings, users, admins, jobs, conv,
                   userData, now, hist, rt, chatUser>>

-----------------------------------------------------------------------------
(* bot/scheduler.py: the wall clock and the daily callback                 *)

\* datetime.datetime.now().strftime("%H:%M") at slot t
ClockText(t) ==
    LET minute_of_day == (t % SlotsPerDay) \div SlotsPerMinute
    IN  Pad2(minute_of_day \div MinutesPerHour) \o <<":">> \o
        Pad2(minute_of_day % MinutesPerHour)

\* a registered repeating job whose run is due
Due(k) ==
    /\ k \in 1..Len(jobs)
    /\ jobs[k].name = DAILY_JOB
    /\ jobs[k].next = now % SlotsPerDay

\* time passes: one slot, when no job is due and no loop is in flight
Tick ==
    /\ started
    /\ \A k \in 1..Len(jobs) : ~Due(k)
    /\ \A o \in Origins : bc[o].pc # "loop"
    /\ now' = (now + 1) % SlotsPerDay
    /\ hist' = IF now + 1 = SlotsPerDay
               THEN [hist EXCEPT !.dailyFires = 0]
               ELSE hist
    /\ UNCHANGED <<started, jobQueue, dbUp, settings, users, admins, jobs,
                   conv, userData, reply, bc, rt,
                   chatUser, adminConv>>

\* DailyMatches comparing with the hard-coded default instead of the
\* persisted daily_time
DailyMatches_DefaultOnly(coll, t) == ClockText(t) = DEFAULT_DAILY_TIME

\* DailyMatches comparing with the value read, with no default for a
\* missing daily_time
DailyMatches_NoDefault(coll, t) ==
    ClockText(t) = get_schedule_settings(coll).daily_time

\* daily_announcement, lines 80-85: whether this run sends
DailyMatches(coll, t) ==
    LET st             == get_schedule_settings(coll)
        scheduled_time == IF st.daily_time = NoTime
                          THEN DEFAULT_DAILY_TIME ELSE st.daily_time
    IN  ClockText(t) = scheduled_time

\* daily_announcement, lines 86-88: the text put into context.job.data
DailyText(coll) ==
    LET messages == get_announcement_messages(coll)
    IN  IF messages.daily = NoText THEN DEFAULT_DAILY_TEXT ELSE messages.daily

\* daily_announcement comparing the clock with the daily time that
\* setup_scheduler read when the bot started
daily_announcement_InstallTime(k) ==
    /\ started
    /\ Due(k)
    /\ ~Running(DAILY_JOB)
    /\ jobs' = [jobs EXCEPT ![k].next = (now + SlotsPerMinute) % SlotsPerDay]
    /\ IF DailyMatches(hist.atStart[FirstAdmin], now)
       THEN /\ bc' = [bc EXCEPT ![DAILY_JOB] = StartLoop(DailyText(settings))]
            /\ hist' = [hist EXCEPT !.dailyFires = @ + 1]
       ELSE UNCHANGED <<bc, hist>>
    /\ UNCHANGED <<started, jobQueue, dbUp, settings, users, admins, conv,
                   userData, reply, now, rt,
                   chatUser, adminConv>>

\* daily_announcement run by job k of the registry, which is then due again
\* 60 seconds later
daily_announcement(k) ==
    /\ started
    /\ Due(k)
    /\ ~Running(DAILY_JOB)
    /\ jobs' = [jobs EXCEPT ![k].next = (now + SlotsPerMinute) % SlotsPerDay]
    /\ IF DailyMatches(settings, now)
       THEN /\ bc' = [bc EXCEPT ![DAILY_JOB] = StartLoop(DailyText(settings))]
            /\ hist' = [hist EXCEPT !.dailyFires = @ + 1]
       ELSE UNCHANGED <<bc, hist>>
    /\ UNCHANGED <<started, jobQueue, dbUp, settings, users, admins, conv,
                   userData, reply, now, rt,
                   chatUser, adminConv>>

\* a registered weekly job whose run time has come
DueWeekly(k) ==
    /\ k \in 1..Len(jobs)
    /\ jobs[k].name = WEEKLY_JOB
    /\ jobs[k].next = now

\* time passes with the weekday followed: one slot, when no job is due and
\* no loop is in flight; run times are counted from the start of the
\* current week
TickWeek ==
    /\ started
    /\ \A k \in 1..Len(jobs) : ~Due(k) /\ ~DueWeekly(k)
    /\ \A o \in Origins : bc[o].pc # "loop"
    /\ now' = (now + 1) % SlotsPerWeek
    /\ jobs' = IF now + 1 = SlotsPerWeek
               THEN [k \in 1..Len(jobs) |->
                        IF jobs[k].name = WEEKLY_JOB
                        THEN [jobs[k] EXCEPT !.next = @ - SlotsPerWeek]
                        ELSE jobs[k]]
               ELSE jobs
    /\ hist' = IF (now + 1) % SlotsPerDay = 0
               THEN [hist EXCEPT !.dailyFires = 0]
               ELSE hist
    /\ UNCHANGED <<started, jobQueue, dbUp, settings, users, admins,
                   conv, userData, reply, bc, rt,
                   chatUser, adminConv>>

\* weekly_announcement reading the built-in text instead of the store
WeeklyText_Default(coll) == DEFAULT_WEEKLY_TEXT

\* weekly_announcement, lines 101-102: the text put into context.job.data
WeeklyText(coll) ==
    LET messages == get_announcement_messages(coll)
    IN  IF messages.weekly = NoText THEN DEFAULT_WEEKLY_TEXT ELSE messages.weekly

\* weekly_announcement held back while a daily broadcast is in flight
weekly_announcement_AfterDaily(k) ==
    /\ started
    /\ DueWeekly(k)
    /\ ~Running(WEEKLY_JOB)
    /\ bc[DAILY_JOB].pc # "loop"
    /\ jobs' = [jobs EXCEPT ![k].next = @ + SlotsPerWeek]
    /\ bc' = [bc EXCEPT ![WEEKLY_JOB] = StartLoop(WeeklyText(settings))]
    /\ UNCHANGED <<started, jobQueue, dbUp, settings, users, admins, conv,
                   userData, reply, now, hist, rt,
                   chatUser, adminConv>>

\* weekly_announcement run by job k of the registry, whose trigger then
\* names the same weekday and time of the following week
weekly_announcement(k) ==
    /\ started
    /\ DueWeekly(k)
    /\ ~Running(WEEKLY_JOB)
    /\ jobs' = [jobs EXCEPT ![k].next = @ + SlotsPerWeek]
    /\ bc' = [bc EXCEPT ![WEEKLY_JOB] = StartLoop(WeeklyText(settings))]
    /\ UNCHANGED <<started, jobQueue, dbUp, settings, users, admins, conv,
                   userData, reply, now, hist, rt,
                   chatUser, adminConv>>

-----------------------------------------------------------------------------
(* bot/scheduler.py: a job run that raises                                 *)

\* the except branch of daily_announcement with the job no longer in the
\* registry afterwards
daily_announcement_raises_DropsJob(k) ==
    /\ started
    /\ Due(k)
    /\ ~Running(DAILY_JOB)
    /\ jobs' = SelectSeq(jobs, LAMBDA job : job.name # DAILY_JOB)
    /\ UNCHANGED <<started, jobQueue, dbUp, settings, users, admins, conv,
                   userData, reply, now, bc, hist, rt,
                   chatUser, adminConv>>

\* daily_announcement, lines 79-95, when something inside the try raises
\* before the loop has started (reading the settings, the messages or the
\* users): the except branch logs, the callback returns, the job is due
\* again 60 seconds later
daily_announcement_raises(k) ==
    /\ started
    /\ Due(k)
    /\ ~Running(DAILY_JOB)
    /\ jobs' = [jobs EXCEPT ![k].next = (now + SlotsPerMinute) % SlotsPerDay]
    /\ UNCHANGED <<started, jobQueue, dbUp, settings, users, admins, conv,
                   userData, reply, now, bc, hist, rt,
                   chatUser, adminConv>>

\* weekly_announcement, lines 100-108, likewise: the trigger then names the
\* same weekday and time of the following week
weekly_announcement_raises(k) ==
    /\ started
    /\ DueWeekly(k)
    /\ ~Running(WEEKLY_JOB)
    /\ jobs' = [jobs EXCEPT ![k].next = @ + SlotsPerWeek]
    /\ UNCHANGED <<started, jobQueue, dbUp, settings, users, admins, conv,
                   userData, reply, now, bc, hist, rt,
                   chatUser, adminConv>>

\* an error raised inside send_scheduled_announcement outside the try of a
\* send leaves the loop and is caught by the callback, which returns
loop_raises(o) ==
    /\ bc[o].pc = "loop"
    /\ bc' = [bc EXCEPT ![o].pc = "done"]
    /\ LoopFrame

-----------------------------------------------------------------------------
(* bot/utils.py, bot/scheduler.py: a send that does not return             *)

\* await context.bot.send_message(...) of the loop of job o never returns:
\* the callback stays at that await
send_hangs(o) ==
    /\ bc[o].pc = "loop"
    /\ bc[o].i <= Len(bc[o].snapshot)
    /\ bc' = [bc EXCEPT ![o].pc = "hung"]
    /\ LoopFrame

\* the repeating job registered by run_repeating(daily_announcement,
\* interval=60, first=0, name=...) comes due while its previous run has not
\* returned: the job was registered with no job_kwargs, so the job queue
\* allows one running instance of it and skips this run; the job is due
\* again 60 seconds later
daily_skipped(k) ==
    /\ started
    /\ Due(k)
    /\ Running(DAILY_JOB)
    /\ jobs' = [jobs EXCEPT ![k].next = (now + SlotsPerMinute) % SlotsPerDay]
    /\ UNCHANGED <<started, jobQueue, dbUp, settings, users, admins, conv,
                   userData, reply, now, bc, hist, rt,
                   chatUser, adminConv>>

\* likewise the job registered by run_daily(weekly_announcement, ...)
weekly_skipped(k) ==
    /\ started
    /\ DueWeekly(k)
    /\ Running(WEEKLY_JOB)
    /\ jobs' = [jobs EXCEPT ![k].next = @ + SlotsPerWeek]
    /\ UNCHANGED <<started, jobQueue, dbUp, settings, users, admins, conv,
                   userData, reply, now, bc, hist, rt,
                   chatUser, adminConv>>

-----------------------------------------------------------------------------
(* The 12-hour display round trip of show_schedule_confirmation            *)

RtOff == [stage |-> "off", t |-> NoTime, display |-> NoTime, back |-> NoTime]

\* the canonical times of day
CanonicalTimes ==
    {Canonical(h, m) : h \in 0..(HoursPerDay - 1), m \in 0..(MinutesPerHour - 1)}

\* format_time_ampm applied to the stored time
ShowTime ==
    /\ rt.stage = "stored"
    /\ rt' = [rt EXCEPT !.stage = "shown", !.display = format_time_ampm(rt.t)]
    /\ UNCHANGED <<started, jobQueue, dbUp, settings, users, admins, jobs,
                   conv, userData, reply, now, bc, hist,
                   chatUser, adminConv>>

\* parse_time_ampm applied to what was displayed
ReadBack ==
    /\ rt.stage = "shown"
    /\ rt' = [rt EXCEPT !.stage = "back", !.back = parse_time_ampm(rt.display)]
    /\ UNCHANGED <<started, jobQueue, dbUp, settings, users, admins, jobs,
                   conv, userData, reply, now, bc, hist,
                   chatUser, adminConv>>

-----------------------------------------------------------------------------
(* Initial states and specifications                                       *)

HistInit ==
    [sessions    |-> 0,
     entered     |-> [u \in UserIds |-> 0],
     atStart     |-> [u \in UserIds |-> <<>>],
     jobsAtStart |-> [u \in UserIds |-> <<>>],
     dailyFires  |-> 0,
     typed       |-> [u \in UserIds |-> EmptyUserData],
     reschedules |-> 0]

AllUsers == [k \in 1..NumUsers |-> k]

\* no user is in a conversation of the three admin handlers
IdleAdminConv == [announce |-> END, add_admin |-> END, remove_admin |-> END]

\* every conversation key is a user in their private chat with the bot
InitKeys ==
    /\ chatUser = [k \in UserIds |-> k]
    /\ adminConv = [k \in UserIds |-> IdleAdminConv]

\* what every initial state shares: nobody is in a conversation, nothing is
\* being sent
InitIdle ==
    /\ admins = {FirstAdmin}
    /\ conv = [u \in UserIds |-> END]
    /\ userData = [u \in UserIds |-> EmptyUserData]
    /\ reply = [u \in UserIds |-> R_NONE]
    /\ bc = [o \in Origins |-> IdleLoop]
    /\ hist = HistInit

\* the process before main() runs: the store is connected or not, holds the
\* default document or (the insert failed) none; the job queue is installed
\* or not
Init ==
    /\ InitKeys
    /\ started = FALSE
    /\ jobQueue \in BOOLEAN
    /\ dbUp \in BOOLEAN
    /\ settings \in IF dbUp THEN {<<>>, <<DefaultSettings>>} ELSE {<<>>}
    /\ users = AllUsers
    /\ jobs = <<>>
    /\ now = 0
    /\ rt = RtOff
    /\ InitIdle

ConversationStep ==
    \E u \in UserIds :
        \/ set_schedule_command(u)
        \/ \E data \in {DAILY_SCHEDULE, WEEKLY_SCHEDULE} :
               schedule_type_selection(u, data)
        \/ \E text \in Messages : announcement_message_input(u, text)
        \/ \E i \in 1..Len(TimeInputs) : time_input(u, i)
        \/ \E d \in DayInputs : day_input(u, d)
        \/ \E data \in {CONFIRM_SCHEDULE_UPDATE, CANCEL_SCHEDULE_UPDATE},
              raises \in BOOLEAN : schedule_confirmation(u, data, raises)
        \/ cancel(u)

Next == Main \/ ConversationStep

Spec == Init /\ [][Next]_vars

\* the round trip alone, from every canonical time
InitTime ==
    /\ InitKeys
    /\ started = FALSE
    /\ jobQueue = TRUE
    /\ dbUp = TRUE
    /\ settings = <<DefaultSettings>>
    /\ users = AllUsers
    /\ jobs = <<>>
    /\ now = 0
    /\ rt \in {[stage |-> "stored", t |-> t, display |-> NoTime, back |-> NoTime] :
                  t \in CanonicalTimes}
    /\ InitIdle

NextTime == ShowTime \/ ReadBack

SpecTime == InitTime /\ [][NextTime]_vars

\* the broadcast loop alone: any users collection, any outcome of each send
RECURSIVE SeqsOver(_, _)
SeqsOver(S, n) ==
    IF n = 0 THEN {<<>>}
    ELSE LET shorter == SeqsOver(S, n - 1)
         IN  shorter \cup
             {Append(q, x) : q \in {r \in shorter : Len(r) = n - 1}, x \in S}

\* user documents are unique by user_id (the collection's unique index)
Distinct(q) == \A i, j \in 1..Len(q) : i # j => q[i] # q[j]

InitBroadcast ==
    /\ InitKeys
    /\ started = TRUE
    /\ jobQueue = TRUE
    /\ dbUp \in BOOLEAN
    /\ settings = IF dbUp THEN <<DefaultSettings>> ELSE <<>>
    /\ users \in {q \in SeqsOver(RecipientIds, MaxRecipients) : Distinct(q)}
    /\ now = 0
    /\ jobs = setup_scheduler(<<>>, settings, now)
    /\ rt = RtOff
    /\ InitIdle

NextBroadcast ==
    \/ \E message \in Messages : broadcast_message(message)
    \/ \E ok \in BOOLEAN : send_message(BROADCAST_MESSAGE, ok)
    \/ loop_return(BROADCAST_MESSAGE)
    \/ \E u \in RecipientIds : store_user_data(u)

SpecBroadcast == InitBroadcast /\ [][NextBroadcast]_vars

\* the running bot at any time of day: the daily job installed at some point
\* of the current minute, the operator about to press a button of the
\* confirmation summary of a draft that leaves the daily time as it is
CustomSettings ==
    [daily_time  |-> <<"1", "4", ":", "3", "0">>,
     weekly_time |-> DEFAULT_WEEKLY_TIME,
     weekly_day  |-> DEFAULT_WEEKLY_DAY,
     messages    |-> [daily |-> "Daily reminder", weekly |-> DEFAULT_WEEKLY_TEXT]]

DraftsKeepingDailyTime(coll) ==
    { [schedule_type |-> WEEKLY_SCHEDULE, announcement_message |-> "Weekly update",
       time |-> <<"1", "4", ":", "3", "0">>, day |-> 0,
       announcement_text |-> NoText],
      [schedule_type |-> DAILY_SCHEDULE, announcement_message |-> "Weekly update",
       time |-> coll[1].daily_time, day |-> NoDay,
       announcement_text |-> NoText] }

InitDispatch ==
    /\ InitKeys
    /\ started = TRUE
    /\ jobQueue = TRUE
    /\ dbUp = TRUE
    /\ settings \in {<<DefaultSettings>>, <<CustomSettings>>}
    /\ users = <<FirstAdmin>>
    /\ admins = {FirstAdmin}
    /\ now \in 0..(SlotsPerDay - 1)
    /\ \E phase \in 0..(SlotsPerMinute - 1) :
           jobs = <<RepeatingJob((now + phase) % SlotsPerDay),
                    WeeklyJobOf(settings[1].weekly_day, settings[1].weekly_time,
                                now)>>
    /\ conv = [u \in UserIds |-> IF u = FirstAdmin THEN CONFIRM_SCHEDULE ELSE END]
    /\ \E draft \in DraftsKeepingDailyTime(settings) :
           /\ userData = [u \in UserIds |->
                             IF u = FirstAdmin THEN draft ELSE EmptyUserData]
           /\ hist = [HistInit EXCEPT !.sessions = 1,
                                      !.typed[FirstAdmin] = draft]
    /\ reply = [u \in UserIds |-> IF u = FirstAdmin THEN R_SUMMARY ELSE R_NONE]
    /\ bc = [o \in Origins |-> IdleLoop]
    /\ rt = RtOff

NextDispatch ==
    \/ Tick
    \/ \E k \in 1..Len(jobs) : daily_announcement(k)
    \/ send_message(DAILY_JOB, TRUE)
    \/ loop_return(DAILY_JOB)
    \/ \E data \in {CONFIRM_SCHEDULE_UPDATE, CANCEL_SCHEDULE_UPDATE} :
           schedule_confirmation(FirstAdmin, data, FALSE)

SpecDispatch == InitDispatch /\ [][NextDispatch]_vars

\* the running bot over a week, from the week's first instant: both jobs
\* installed, the operator at the confirmation summary of a draft
InitWeek ==
    /\ InitKeys
    /\ started = TRUE
    /\ jobQueue = TRUE
    /\ dbUp = TRUE
    /\ settings = <<CustomSettings>>
    /\ users = <<FirstAdmin>>
    /\ admins = {FirstAdmin}
    /\ now = 0
    /\ jobs = setup_scheduler(<<>>, settings, now)
    /\ conv = [u \in UserIds |-> IF u = FirstAdmin THEN CONFIRM_SCHEDULE ELSE END]
    /\ \E draft \in DraftsKeepingDailyTime(settings) :
           /\ userData = [u \in UserIds |->
                             IF u = FirstAdmin THEN draft ELSE EmptyUserData]
           /\ hist = [HistInit EXCEPT !.sessions = 1,
                                      !.typed[FirstAdmin] = draft]
    /\ reply = [u \in UserIds |-> IF u = FirstAdmin THEN R_SUMMARY ELSE R_NONE]
    /\ bc = [o \in Origins |-> IdleLoop]
    /\ rt = RtOff

NextWeek ==
    \/ TickWeek
    \/ \E k \in 1..Len(jobs) : daily_announcement(k)
    \/ \E k \in 1..Len(jobs) : weekly_announcement(k)
    \/ \E o \in {DAILY_JOB, WEEKLY_JOB} : send_message(o, TRUE)
    \/ \E o \in {DAILY_JOB, WEEKLY_JOB} : loop_return(o)
    \/ schedule_confirmation(FirstAdmin, CONFIRM_SCHEDULE_UPDATE, FALSE)

SpecWeek == InitWeek /\ [][NextWeek]_vars

\* two admins, each about to type the time of a draft: the first a Daily
\* one, the second a Weekly one
Operators == {FirstAdmin, FirstAdmin + 1}

OperatorDraft(u) ==
    IF u = FirstAdmin
    THEN [EmptyUserData EXCEPT !.schedule_type = DAILY_SCHEDULE,
                               !.announcement_message = "Daily reminder"]
    ELSE [EmptyUserData EXCEPT !.schedule_type = WEEKLY_SCHEDULE,
                               !.announcement_message = "Weekly update"]

InitOperators ==
    /\ InitKeys
    /\ started = TRUE
    /\ jobQueue \in BOOLEAN
    /\ dbUp = TRUE
    /\ settings \in {<<>>, <<DefaultSettings>>}
    /\ users = AllUsers
    /\ admins = Operators
    /\ now = 0
    /\ jobs = setup_scheduler(<<>>, settings, now)
    /\ conv = [u \in UserIds |-> IF u \in Operators THEN TYPING_TIME ELSE END]
    /\ userData = [u \in UserIds |->
                      IF u \in Operators THEN OperatorDraft(u) ELSE EmptyUserData]
    /\ reply = [u \in UserIds |->
                   IF u \in Operators THEN R_ENTER_TIME ELSE R_NONE]
    /\ bc = [o \in Origins |-> IdleLoop]
    /\ hist = [HistInit EXCEPT !.sessions = Cardinality(Operators),
                               !.typed = [u \in UserIds |->
                                   IF u \in Operators THEN OperatorDraft(u)
                                   ELSE EmptyUserData]]
    /\ rt = RtOff

NextOperators ==
    \E u \in Operators :
        \/ \E i \in 1..Len(TimeInputs) : time_input(u, i)
        \/ \E d \in DayInputs : day_input(u, d)
        \/ \E data \in {CONFIRM_SCHEDULE_UPDATE, CANCEL_SCHEDULE_UPDATE},
              raises \in BOOLEAN : schedule_confirmation(u, data, raises)
        \/ cancel(u)

SpecOperators == InitOperators /\ [][NextOperators]_vars

\* the bot from before main() through a day with no settings to read: the
\* collection holds no document, or the store is down (whatever it holds)
InitDefaults ==
    /\ InitKeys
    /\ started = FALSE
    /\ jobQueue = TRUE
    /\ dbUp \in BOOLEAN
    /\ settings \in IF dbUp THEN {<<>>} ELSE {<<>>, <<CustomSettings>>}
    /\ users \in {<<FirstAdmin>>, AllUsers}
    /\ jobs = <<>>
    /\ now = 0
    /\ rt = RtOff
    /\ InitIdle

NextDefaults ==
    \/ Main
    \/ Tick
    \/ \E k \in 1..Len(jobs) : daily_announcement(k)
    \/ send_message(DAILY_JOB, TRUE)
    \/ loop_return(DAILY_JOB)

SpecDefaults == InitDefaults /\ [][NextDefaults]_vars

\* the operator of a Weekly draft in front of the weekday keyboard
DraftTimes == {<<"0", "9", ":", "0", "0">>, <<"1", "4", ":", "3", "0">>}

InitDays ==
    /\ InitKeys
    /\ started = TRUE
    /\ jobQueue = TRUE
    /\ dbUp = TRUE
    /\ settings \in {<<DefaultSettings>>, <<CustomSettings>>}
    /\ users = <<FirstAdmin>>
    /\ admins = {FirstAdmin}
    /\ now = 0
    /\ jobs = setup_scheduler(<<>>, settings, now)
    /\ conv = [u \in UserIds |-> IF u = FirstAdmin THEN TYPING_DAY ELSE END]
    /\ \E message \in Messages, t \in DraftTimes :
           LET draft == [schedule_type |-> WEEKLY_SCHEDULE,
                         announcement_message |-> message,
                         time |-> t, day |-> NoDay,
                         announcement_text |-> NoText]
           IN  /\ userData = [u \in UserIds |->
                                 IF u = FirstAdmin THEN draft ELSE EmptyUserData]
               /\ hist = [HistInit EXCEPT !.sessions = 1,
                                          !.typed[FirstAdmin] = draft]
    /\ reply = [u \in UserIds |-> IF u = FirstAdmin THEN R_SELECT_DAY ELSE R_NONE]
    /\ bc = [o \in Origins |-> IdleLoop]
    /\ rt = RtOff

\* a button of the keyboard is pressed: day_input gets int(query.data)
NextDays ==
    \/ \E b \in 1..Len(WeekdayButtons) :
           day_input(FirstAdmin, IntOf(WeekdayButtons[b].callback_data))
    \/ \E data \in {CONFIRM_SCHEDULE_UPDATE, CANCEL_SCHEDULE_UPDATE} :
           schedule_confirmation(FirstAdmin, data, FALSE)
    \/ cancel(FirstAdmin)

SpecDays == InitDays /\ [][NextDays]_vars

\* the running bot over a week with job runs that may raise: both jobs
\* installed at the week's first instant, nobody in a conversation
InitFaults ==
    /\ InitKeys
    /\ started = TRUE
    /\ jobQueue = TRUE
    /\ dbUp = TRUE
    /\ settings = <<CustomSettings>>
    /\ users = <<FirstAdmin>>
    /\ now = 0
    /\ jobs = setup_scheduler(<<>>, settings, now)
    /\ rt = RtOff
    /\ InitIdle

NextFaults ==
    \/ TickWeek
    \/ \E k \in 1..Len(jobs) : daily_announcement(k)
    \/ \E k \in 1..Len(jobs) : daily_announcement_raises(k)
    \/ \E k \in 1..Len(jobs) : weekly_announcement(k)
    \/ \E k \in 1..Len(jobs) : weekly_announcement_raises(k)
    \/ \E o \in {DAILY_JOB, WEEKLY_JOB} : send_message(o, TRUE)
    \/ \E o \in {DAILY_JOB, WEEKLY_JOB} : loop_raises(o)
    \/ \E o \in {DAILY_JOB, WEEKLY_JOB} : loop_return(o)

SpecFaults == InitFaults /\ [][NextFaults]_vars

\* the running bot over a week in which a send of a scheduled broadcast may
\* never return, the operator at the confirmation summary of a draft
InitHang ==
    /\ InitKeys
    /\ started = TRUE
    /\ jobQueue = TRUE
    /\ dbUp = TRUE
    /\ settings = <<CustomSettings>>
    /\ users = <<FirstAdmin>>
    /\ admins = {FirstAdmin}
    /\ now = 0
    /\ jobs = setup_scheduler(<<>>, settings, now)
    /\ conv = [u \in UserIds |-> IF u = FirstAdmin THEN CONFIRM_SCHEDULE ELSE END]
    /\ LET draft == [schedule_type |-> DAILY_SCHEDULE,
                     announcement_message |-> "Weekly update",
                     time |-> settings[1].daily_time, day |-> NoDay,
                     announcement_text |-> NoText]
       IN  /\ userData = [u \in UserIds |->
                             IF u = FirstAdmin THEN draft ELSE EmptyUserData]
           /\ hist = [HistInit EXCEPT !.sessions = 1,
                                      !.typed[FirstAdmin] = draft]
    /\ reply = [u \in UserIds |-> IF u = FirstAdmin THEN R_SUMMARY ELSE R_NONE]
    /\ bc = [o \in Origins |-> IdleLoop]
    /\ rt = RtOff

NextHang ==
    \/ TickWeek
    \/ \E k \in 1..Len(jobs) : daily_announcement(k)
    \/ \E k \in 1..Len(jobs) : daily_skipped(k)
    \/ \E k \in 1..Len(jobs) : weekly_announcement(k)
    \/ \E k \in 1..Len(jobs) : weekly_skipped(k)
    \/ \E o \in {DAILY_JOB, WEEKLY_JOB} : send_message(o, TRUE)
    \/ \E o \in {DAILY_JOB, WEEKLY_JOB} : send_hangs(o)
    \/ \E o \in {DAILY_JOB, WEEKLY_JOB} : loop_return(o)
    \/ schedule_confirmation(FirstAdmin, CANCEL_SCHEDULE_UPDATE, FALSE)

SpecHang == InitHang /\ [][NextHang]_vars

\* a new process replaces the running one: importing bot.database connects
\* (up) or not, and a connected store runs _initialize_defaults; jobs,
\* conversations, user_data and loops of the old process are gone, the
\* collections stay
connect_to_db(up, inserted) ==
    /\ started
    /\ started' = FALSE
    /\ dbUp' = up
    /\ settings' = IF up THEN initialize_defaults(settings, inserted) ELSE settings
    /\ jobs' = <<>>
    /\ conv' = [u \in UserIds |-> END]
    /\ userData' = [u \in UserIds |-> EmptyUserData]
    /\ reply' = [u \in UserIds |-> R_NONE]
    /\ bc' = [o \in Origins |-> IdleLoop]
    /\ hist' = [HistInit EXCEPT !.sessions = hist.sessions]
    /\ UNCHANGED <<jobQueue, users, admins, now, rt,
                   chatUser, adminConv>>

\* the bot over several start-ups, with one admin configuring
InitStartups ==
    /\ InitKeys
    /\ started = FALSE
    /\ jobQueue = TRUE
    /\ dbUp \in BOOLEAN
    /\ settings \in IF dbUp THEN {initialize_defaults(<<>>, inserted) : inserted \in BOOLEAN}
                    ELSE {<<>>}
    /\ users = AllUsers
    /\ jobs = <<>>
    /\ now = 0
    /\ rt = RtOff
    /\ InitIdle

NextStartups ==
    \/ \E up \in BOOLEAN, inserted \in BOOLEAN : connect_to_db(up, inserted)
    \/ Main
    \/ set_schedule_command(FirstAdmin)
    \/ \E data \in {DAILY_SCHEDULE, WEEKLY_SCHEDULE} :
           schedule_type_selection(FirstAdmin, data)
    \/ \E text \in Messages : announcement_message_input(FirstAdmin, text)
    \/ \E i \in 1..Len(TimeInputs) : time_input(FirstAdmin, i)
    \/ \E d \in DayInputs : day_input(FirstAdmin, d)
    \/ \E data \in {CONFIRM_SCHEDULE_UPDATE, CANCEL_SCHEDULE_UPDATE} :
           schedule_confirmation(FirstAdmin, data, FALSE)
    \/ cancel(FirstAdmin)

SpecStartups == InitStartups /\ [][NextStartups]_vars

\* the running bot over a day, both jobs installed at midnight from the
\* default document, the admin in front of the summary of a Daily draft; the
\* reinstallation after the write may raise
NamedJobs == {DAILY_JOB, WEEKLY_JOB}

InitReinstall ==
    /\ InitKeys
    /\ started = TRUE
    /\ jobQueue = TRUE
    /\ dbUp = TRUE
    /\ settings = <<DefaultSettings>>
    /\ users = <<FirstAdmin>>
    /\ admins = {FirstAdmin}
    /\ now = 0
    /\ jobs = setup_scheduler(<<>>, settings, now)
    /\ conv = [u \in UserIds |-> IF u = FirstAdmin THEN CONFIRM_SCHEDULE ELSE END]
    /\ \E message \in Messages, t \in DraftTimes :
           LET draft == [schedule_type |-> DAILY_SCHEDULE,
                         announcement_message |-> message,
                         time |-> t, day |-> NoDay,
                         announcement_text |-> NoText]
           IN  /\ userData = [u \in UserIds |->
                                 IF u = FirstAdmin THEN draft ELSE EmptyUserData]
               /\ hist = [HistInit EXCEPT !.sessions = 1,
                                          !.typed[FirstAdmin] = draft,
                                          !.atStart[FirstAdmin] = settings,
                                          !.jobsAtStart[FirstAdmin] = jobs]
    /\ reply = [u \in UserIds |-> IF u = FirstAdmin THEN R_SUMMARY ELSE R_NONE]
    /\ bc = [o \in Origins |-> IdleLoop]
    /\ rt = RtOff

NextReinstall ==
    \/ Tick
    \/ \E k \in 1..Len(jobs) : daily_announcement(k)
    \/ send_message(DAILY_JOB, TRUE)
    \/ loop_return(DAILY_JOB)
    \/ \E data \in {CONFIRM_SCHEDULE_UPDATE, CANCEL_SCHEDULE_UPDATE} :
           schedule_confirmation(FirstAdmin, data, FALSE)
    \/ \E n \in 0..Cardinality(NamedJobs) : reschedule_raises(FirstAdmin, n)

SpecReinstall == InitReinstall /\ [][NextReinstall]_vars

\* two admins: the first in front of the summary of a draft, the second free
\* to take the admin role from the first
InitRevoke ==
    /\ InitKeys
    /\ started = TRUE
    /\ jobQueue = TRUE
    /\ dbUp = TRUE
    /\ settings = <<DefaultSettings>>
    /\ users = AllUsers
    /\ admins = Operators
    /\ now = 0
    /\ jobs = setup_scheduler(<<>>, settings, now)
    /\ conv = [u \in UserIds |-> IF u = FirstAdmin THEN CONFIRM_SCHEDULE ELSE END]
    /\ \E message \in Messages, t \in DraftTimes :
           LET draft == [schedule_type |-> DAILY_SCHEDULE,
                         announcement_message |-> message,
                         time |-> t, day |-> NoDay,
                         announcement_text |-> NoText]
           IN  /\ userData = [u \in UserIds |->
                                 IF u = FirstAdmin THEN draft ELSE EmptyUserData]
               /\ hist = [HistInit EXCEPT !.sessions = 1,
                                          !.typed[FirstAdmin] = draft,
                                          !.atStart[FirstAdmin] = settings,
                                          !.jobsAtStart[FirstAdmin] = jobs]
    /\ reply = [u \in UserIds |-> IF u = FirstAdmin THEN R_SUMMARY ELSE R_NONE]
    /\ bc = [o \in Origins |-> IdleLoop]
    /\ rt = RtOff

\* updates are handled one after the other: while a handler is in its
\* notification broadcast no other update is taken up
NextRevoke ==
    \/ \E k \in UserIds : remove_admin_command(k)
    \/ \E k \in UserIds, text \in AdminIdInputs : remove_admin_id_input(k, text)
    \/ \E k \in UserIds : cancel_admin(k, "remove_admin")
    \/ \E ok \in BOOLEAN : send_message(BROADCAST_MESSAGE, ok)
    \/ loop_return(BROADCAST_MESSAGE)
    \/ \E k \in UserIds : ~Running(BROADCAST_MESSAGE) /\ set_schedule_command(k)
    \/ \E k \in UserIds : ~Running(BROADCAST_MESSAGE) /\ cancel(k)
    \/ \E data \in {CONFIRM_SCHEDULE_UPDATE, CANCEL_SCHEDULE_UPDATE} :
           ~Running(BROADCAST_MESSAGE) /\ schedule_confirmation(FirstAdmin, data, FALSE)

SpecRevoke == InitRevoke /\ [][NextRevoke]_vars

\* the running bot before anybody has talked to it: no user, no admin
InitAdmins ==
    /\ InitKeys
    /\ started = TRUE
    /\ jobQueue = TRUE
    /\ dbUp = TRUE
    /\ settings = <<DefaultSettings>>
    /\ users = <<>>
    /\ admins = {}
    /\ now = 0
    /\ jobs = setup_scheduler(<<>>, settings, now)
    /\ conv = [u \in UserIds |-> END]
    /\ userData = [u \in UserIds |-> EmptyUserData]
    /\ reply = [u \in UserIds |-> R_NONE]
    /\ bc = [o \in Origins |-> IdleLoop]
    /\ hist = HistInit
    /\ rt = RtOff

NextAdmins ==
    \/ \E k \in UserIds : ~Running(BROADCAST_MESSAGE) /\ start(k)
    \/ \E k \in UserIds : add_admin_command(k)
    \/ \E k \in UserIds, text \in AdminIdInputs : admin_id_input(k, text)
    \/ \E k \in UserIds : remove_admin_command(k)
    \/ \E k \in UserIds, text \in AdminIdInputs : remove_admin_id_input(k, text)
    \/ \E k \in UserIds, h \in {"add_admin", "remove_admin"} : cancel_admin(k, h)
    \/ send_message(BROADCAST_MESSAGE, TRUE)
    \/ loop_return(BROADCAST_MESSAGE)

SpecAdmins == InitAdmins /\ [][NextAdmins]_vars

\* one admin talking to the bot in several chats (the private chat, groups
\* the bot was added to): every conversation key is a chat of that admin,
\* and context.user_data is the same dictionary in all of them
InitChats ==
    /\ chatUser = [k \in UserIds |-> FirstAdmin]
    /\ adminConv = [k \in UserIds |-> IdleAdminConv]
    /\ started = TRUE
    /\ jobQueue = TRUE
    /\ dbUp = TRUE
    /\ settings = <<DefaultSettings>>
    /\ users = <<FirstAdmin>>
    /\ now = 0
    /\ jobs = setup_scheduler(<<>>, settings, now)
    /\ rt = RtOff
    /\ InitIdle

NextChats ==
    \E k \in UserIds :
        \/ set_schedule_command(k)
        \/ \E data \in {DAILY_SCHEDULE, WEEKLY_SCHEDULE} :
               schedule_type_selection(k, data)
        \/ \E text \in Messages : announcement_message_input(k, text)
        \/ \E i \in 1..Len(TimeInputs) : TimeInputs[i].valid /\ time_input(k, i)
        \/ \E d \in DayInputs : day_input(k, d)
        \/ \E data \in {CONFIRM_SCHEDULE_UPDATE, CANCEL_SCHEDULE_UPDATE} :
               schedule_confirmation(k, data, FALSE)
        \/ cancel(k)

SpecChats == InitChats /\ [][NextChats]_vars

\* the running bot with one admin and one other user, any users collection,
\* any outcome of each send
InitAnnounce ==
    /\ InitKeys
    /\ started = TRUE
    /\ jobQueue = TRUE
    /\ dbUp = TRUE
    /\ settings = <<DefaultSettings>>
    /\ users \in {q \in SeqsOver(RecipientIds, MaxRecipients) : Distinct(q)}
    /\ now = 0
    /\ jobs = setup_scheduler(<<>>, settings, now)
    /\ rt = RtOff
    /\ InitIdle

NextAnnounce ==
    \/ \E k \in UserIds : announce_command(k)
    \/ \E k \in UserIds, text \in Messages : announcement_input(k, text)
    \/ \E k \in UserIds, data \in {"send_announcement", "cancel_announcement"} :
           announcement_confirmation(k, data)
    \/ \E k \in UserIds : ~Running(ANNOUNCEMENT) /\ cancel_admin(k, "announce")
    \/ \E ok \in BOOLEAN : announcement_send(ok)
    \/ \E k \in UserIds : announcement_sent(k)

SpecAnnounce == InitAnnounce /\ [][NextAnnounce]_vars

-----------------------------------------------------------------------------
(* Properties                                                              *)

\* what the store holds for each schedule type; no document holds nothing
PersistedDaily(coll) ==
    IF coll = <<>> THEN <<NoTime, NoText>>
    ELSE <<coll[1].daily_time, coll[1].messages.daily>>

PersistedWeekly(coll) ==
    IF coll = <<>> THEN <<NoTime, NoDay, NoText>>
    ELSE <<coll[1].weekly_time, coll[1].weekly_day, coll[1].messages.weekly>>

\* t is a zero-padded HH:MM with hour 0..23 and minute 0..59
IsCanonicalTime(t) ==
    /\ Len(t) = 5
    /\ t[3] = ":"
    /\ AllDigits(SubSeq(t, 1, 2))
    /\ AllDigits(SubSeq(t, 4, 5))
    /\ IntOf(SubSeq(t, 1, 2)) < HoursPerDay
    /\ IntOf(SubSeq(t, 4, 5)) < MinutesPerHour

\* the operator pressed Confirm and was told the settings were saved
Saved(u) ==
    conv[u] = END /\ reply[u] \in {R_UPDATED, R_SAVED_NOT_RESCHEDULED}

\* C1: with a job queue, after reschedule_jobs has run (any number of times)
\* exactly one "daily_announcement" and exactly one "weekly_announcement"
\* job are registered.
C1_ReinstallLeavesOneJobPerName ==
    \A u \in UserIds :
        (jobQueue /\ conv[u] = END /\ reply[u] = R_UPDATED)
            => JobCount(DAILY_JOB) = 1 /\ JobCount(WEEKLY_JOB) = 1

\* C2: confirming a Daily draft leaves the persisted weekly time, day and
\* message as they were, and confirming a Weekly draft leaves the persisted
\* daily time and message as they were, whatever the store held before.
C2_ConfirmKeepsOtherType ==
    [][\A u \in UserIds :
          (\E raises \in BOOLEAN :
               schedule_confirmation(u, CONFIRM_SCHEDULE_UPDATE, raises))
          => /\ userData[u].schedule_type = DAILY_SCHEDULE
                    => PersistedWeekly(settings') = PersistedWeekly(settings)
             /\ userData[u].schedule_type = WEEKLY_SCHEDULE
                    => PersistedDaily(settings') = PersistedDaily(settings)]_vars

\* a Daily draft was saved over a store whose weekly settings had been
\* changed before, and they are still there
C2_Witness ==
    \E u \in UserIds :
        /\ Saved(u)
        /\ userData[u].schedule_type = DAILY_SCHEDULE
        /\ settings # <<>>
        /\ settings[1].daily_time = userData[u].time
        /\ settings[1].messages.weekly = "Weekly update"
        /\ settings[1].weekly_day = 0

\* C3: broadcast_message attempts one send per recipient of the list it
\* read, in turn, whatever the outcome of the sends before, and returns the
\* number of sends that succeeded and the number that raised.
C3_BroadcastCountsEveryRecipient ==
    LET b == bc[BROADCAST_MESSAGE]
        K == Cardinality({k \in 1..Len(b.sent) : b.sent[k].ok})
        M == Cardinality({k \in 1..Len(b.sent) : ~b.sent[k].ok})
    IN  /\ b.pc = "loop" => Len(b.sent) = b.i - 1
        /\ \A k \in 1..Len(b.sent) :
               b.sent[k].to = b.snapshot[k] /\ b.sent[k].text = b.text
        /\ b.pc = "done"
               => /\ Len(b.sent) = Len(b.snapshot)
                  /\ b.success_count = K
                  /\ b.failure_count = M

\* a broadcast over three recipients returned (2, 1) with the first send
\* failing and the later ones succeeding
C3_Witness ==
    LET b == bc[BROADCAST_MESSAGE]
    IN  /\ b.pc = "done"
        /\ Len(b.snapshot) = 3
        /\ ~b.sent[1].ok /\ b.sent[2].ok /\ b.sent[3].ok
        /\ b.success_count = 2
        /\ b.failure_count = 1

\* C4: a conversation ended by /cancel or by the Cancel button leaves the
\* settings collection and the registered jobs as they were when the
\* conversation started.
C4_CancelChangesNothing ==
    \A u \in UserIds :
        (conv[u] = END /\ reply[u] \in {R_OP_CANCELLED, R_UPDATE_CANCELLED})
            => settings = hist.atStart[u] /\ jobs = hist.jobsAtStart[u]

\* the Cancel button was pressed on a complete Daily draft that differs from
\* what is stored
C4_Witness ==
    \E u \in UserIds :
        /\ conv[u] = END
        /\ reply[u] = R_UPDATE_CANCELLED
        /\ userData[u].schedule_type = DAILY_SCHEDULE
        /\ userData[u].time # NoTime
        /\ settings # <<>>
        /\ userData[u].time # settings[1].daily_time

\* C5: for every canonical time t, parse_time_ampm(format_time_ampm(t)) = t,
\* so formatting the parsed text gives the same display again; 00:00 is
\* shown as "12:00 AM" and 12:00 as "12:00 PM".
C5_TimeRoundTrip ==
    /\ rt.stage = "back"
           => rt.back = rt.t /\ format_time_ampm(rt.back) = rt.display
    /\ (rt.stage \in {"shown", "back"} /\ rt.t = Canonical(0, 0))
           => rt.display = <<"1", "2", ":", "0", "0", " ", "A", "M">>
    /\ (rt.stage \in {"shown", "back"} /\ rt.t = Canonical(HalfDay, 0))
           => rt.display = <<"1", "2", ":", "0", "0", " ", "P", "M">>

\* midnight went through the display form and came back
C5_Witness ==
    /\ rt.stage = "back"
    /\ rt.t = <<"0", "0", ":", "0", "0">>
    /\ rt.display = <<"1", "2", ":", "0", "0", " ", "A", "M">>
    /\ rt.back = <<"0", "0", ":", "0", "0">>

\* C6: the time of every draft and the persisted daily and weekly times are
\* canonical HH:MM strings with hour 0..23 and minute 0..59.
C6_StoredTimesCanonical ==
    /\ \A u \in UserIds :
           userData[u].time # NoTime => IsCanonicalTime(userData[u].time)
    /\ settings # <<>>
           => /\ settings[1].daily_time # NoTime
                     => IsCanonicalTime(settings[1].daily_time)
              /\ settings[1].weekly_time # NoTime
                     => IsCanonicalTime(settings[1].weekly_time)

\* C7: a time input that denotes no time of day is rejected: the
\* conversation stays in TYPING_TIME, the draft is unchanged and the operator
\* is asked again.
C7_InvalidTimeRejected ==
    [][\A u \in UserIds : \A i \in 1..Len(TimeInputs) :
          (~TimeInputs[i].valid /\ time_input(u, i))
              => /\ conv'[u] = TYPING_TIME
                 /\ userData'[u] = userData[u]
                 /\ reply'[u] = R_INVALID_TIME]_vars

\* C8: once a draft with message m, time entered as a text that denotes
\* h:m, and (Weekly) day d is saved, the store holds the canonical form of
\* h:m and m for the draft's type, and d as the weekly day.
C8_SavedDraftIsPersisted ==
    \A u \in UserIds :
        (Saved(u) /\ hist.entered[u] # 0 /\ TimeInputs[hist.entered[u]].valid)
            => LET typed == TimeInputs[hist.entered[u]]
                   t     == Canonical(typed.h, typed.m)
                   m     == userData[u].announcement_message
               IN  IF userData[u].schedule_type = DAILY_SCHEDULE
                   THEN PersistedDaily(settings) = <<t, m>>
                   ELSE PersistedWeekly(settings) = <<t, userData[u].day, m>>

\* "2:30 pm" on Monday with "Weekly update" was saved as 14:30, day 1
C8_Witness ==
    \E u \in UserIds :
        /\ Saved(u)
        /\ userData[u].schedule_type = WEEKLY_SCHEDULE
        /\ hist.entered[u] = 2
        /\ PersistedWeekly(settings) =
               <<<<"1", "4", ":", "3", "0">>, 1, "Weekly update">>

\* C9: the daily announcement is broadcast once a day, in the minute equal
\* to the persisted daily time: no day sees a second broadcast, and none
\* starts in another minute.
C9_DailyOncePerDay ==
    /\ hist.dailyFires <= 1
    /\ bc[DAILY_JOB].pc = "loop" => ClockText(now) = settings[1].daily_time

\* C10: a run of daily_announcement starts a broadcast of the persisted
\* daily message if the wall-clock minute equals the persisted daily time,
\* and otherwise starts nothing.
C10_PollSendsIffMinuteMatches ==
    [][\A k \in 1..Len(jobs) :
          daily_announcement(k)
              => IF ClockText(now) = PersistedDaily(settings)[1]
                 THEN /\ bc'[DAILY_JOB].pc = "loop"
                      /\ bc'[DAILY_JOB].text = PersistedDaily(settings)[2]
                      /\ bc'[DAILY_JOB].snapshot = users
                      /\ bc'[DAILY_JOB].sent = <<>>
                 ELSE bc' = bc]_vars

\* the daily message went out to the recipient at 14:30, the persisted time
C10_Witness ==
    /\ bc[DAILY_JOB].pc = "done"
    /\ settings[1].daily_time = <<"1", "4", ":", "3", "0">>
    /\ ClockText(now) = <<"1", "4", ":", "3", "0">>
    /\ Len(bc[DAILY_JOB].sent) = 1
    /\ bc[DAILY_JOB].sent[1].text = settings[1].messages.daily

\* number of jobs of registry q with the given name
JobCountIn(q, name) == Cardinality({i \in 1..Len(q) : q[i].name = name})

\* the Confirm button pressed by operator u
Confirms(u) ==
    \E raises \in BOOLEAN :
        schedule_confirmation(u, CONFIRM_SCHEDULE_UPDATE, raises)

\* the store holds the draft of operator u for the draft's type
HoldsDraft(coll, u) ==
    IF userData[u].schedule_type = DAILY_SCHEDULE
    THEN PersistedDaily(coll) =
             <<userData[u].time, userData[u].announcement_message>>
    ELSE PersistedWeekly(coll) =
             <<userData[u].time, userData[u].day,
               userData[u].announcement_message>>

\* C12: when the write of a confirmation fails (the store is down or the
\* driver raises), the operator is shown the failure text, the settings
\* collection is what it was before, the job registry is not touched and the
\* conversation ends.
C12_FailedWriteChangesNothing ==
    [][\A u \in UserIds : \A raises \in BOOLEAN :
          schedule_confirmation(u, CONFIRM_SCHEDULE_UPDATE, raises)
          => /\ (raises \/ ~dbUp) => reply'[u] = R_FAILED
             /\ reply'[u] = R_FAILED
                    => /\ settings' = settings
                       /\ jobs' = jobs
                       /\ conv'[u] = END]_vars

\* a Daily draft that differs from the stored daily time was confirmed, the
\* operator saw the failure text, and jobs are registered
C12_Witness ==
    \E u \in UserIds :
        /\ conv[u] = END
        /\ reply[u] = R_FAILED
        /\ userData[u].schedule_type = DAILY_SCHEDULE
        /\ settings # <<>>
        /\ settings[1].daily_time # userData[u].time
        /\ settings = hist.atStart[u]
        /\ JobCount(DAILY_JOB) = 1

\* C13: a confirmation shows the failure text exactly when nothing was
\* written, the "saved but failed to reschedule" text exactly when the write
\* succeeded and there is no job queue to reschedule on, and the success text
\* exactly when the write succeeded and reschedule_jobs ran; in the second
\* case the store holds the draft.
C13_ThreeOutcomes ==
    [][\A u \in UserIds :
          Confirms(u)
          => /\ reply'[u] \in {R_FAILED, R_SAVED_NOT_RESCHEDULED, R_UPDATED}
             /\ reply'[u] = R_FAILED <=> settings' = settings
             /\ reply'[u] = R_SAVED_NOT_RESCHEDULED
                    <=> (settings' # settings /\ ~jobQueue)
             /\ reply'[u] = R_UPDATED <=> (settings' # settings /\ jobQueue)
             /\ reply'[u] = R_SAVED_NOT_RESCHEDULED
                    => HoldsDraft(settings', u) /\ jobs' = jobs]_vars

\* a Weekly draft was saved while the job queue is missing
C13_Witness ==
    \E u \in UserIds :
        /\ conv[u] = END
        /\ reply[u] = R_SAVED_NOT_RESCHEDULED
        /\ userData[u].schedule_type = WEEKLY_SCHEDULE
        /\ HoldsDraft(settings, u)
        /\ settings # hist.atStart[u]
        /\ ~jobQueue

\* C14: after any installation, at start-up or from reschedule_jobs, the
\* registry of a bot with a job queue holds exactly one job named
\* "daily_announcement" and exactly one named "weekly_announcement".
C14_InstallLeavesOneJobPerName ==
    (started /\ jobQueue)
        => JobCount(DAILY_JOB) = 1 /\ JobCount(WEEKLY_JOB) = 1

\* C15: when reschedule_jobs returns True (the operator sees the success
\* text), one daily and one weekly job are registered afterwards and the
\* weekly one carries the persisted weekly day and time; it returns False
\* (the "saved but failed to reschedule" text) only without a job queue.
C15_TrueMeansBothRegistered ==
    [][\A u \in UserIds :
          Confirms(u)
          => /\ reply'[u] = R_UPDATED
                    => /\ JobCountIn(jobs', DAILY_JOB) = 1
                       /\ JobCountIn(jobs', WEEKLY_JOB) = 1
                       /\ \A k \in 1..Len(jobs') :
                              jobs'[k].name = WEEKLY_JOB
                              => LET st == get_schedule_settings(settings')
                                 IN  /\ jobs'[k].day = st.weekly_day
                                     /\ jobs'[k].hour = HourOf(st.weekly_time)
                                     /\ jobs'[k].minute = MinuteOf(st.weekly_time)
             /\ reply'[u] = R_SAVED_NOT_RESCHEDULED => ~jobQueue]_vars

\* C19: for every broadcast that has returned, success_count plus
\* failure_count equals the number of user records read at its start, and
\* while it runs the two counters add up to the number of records passed.
C19_CountersCoverTheList ==
    \A o \in Origins :
        /\ bc[o].pc = "done"
               => bc[o].success_count + bc[o].failure_count = Len(bc[o].snapshot)
        /\ bc[o].pc = "loop"
               => bc[o].success_count + bc[o].failure_count = bc[o].i - 1

\* a broadcast over three records returned (1, 2)
C19_Witness ==
    /\ bc[BROADCAST_MESSAGE].pc = "done"
    /\ Len(bc[BROADCAST_MESSAGE].snapshot) = 3
    /\ bc[BROADCAST_MESSAGE].success_count = 1
    /\ bc[BROADCAST_MESSAGE].failure_count = 2

\* C20: a conversation moves only from ChoosingType to TypingMessage to
\* TypingTime, from there to TypingDay exactly when the type is Weekly and
\* otherwise to Confirming, from TypingDay to Confirming, and from any state
\* to the end; Confirming is entered in a Weekly session only from TypingDay,
\* with a day 0..6 stored by that step.
C20_StatesInOrder ==
    [][\A u \in UserIds :
          conv'[u] # conv[u]
          => /\ \/ conv[u] = END /\ conv'[u] = CHOOSING_SCHEDULE_TYPE
                \/ conv[u] = CHOOSING_SCHEDULE_TYPE
                       /\ conv'[u] = TYPING_ANNOUNCEMENT_MESSAGE
                \/ conv[u] = TYPING_ANNOUNCEMENT_MESSAGE
                       /\ conv'[u] = TYPING_TIME
                \/ conv[u] = TYPING_TIME /\ conv'[u] = TYPING_DAY
                       /\ userData[u].schedule_type = WEEKLY_SCHEDULE
                \/ conv[u] = TYPING_TIME /\ conv'[u] = CONFIRM_SCHEDULE
                       /\ userData[u].schedule_type = DAILY_SCHEDULE
                \/ conv[u] = TYPING_DAY /\ conv'[u] = CONFIRM_SCHEDULE
                \/ conv[u] # END /\ conv'[u] = END
             /\ (conv'[u] = CONFIRM_SCHEDULE
                     /\ userData'[u].schedule_type = WEEKLY_SCHEDULE)
                    => /\ conv[u] = TYPING_DAY
                       /\ userData'[u].day \in 0..(DaysPerWeek - 1)
                       /\ userData'[u].time # NoTime
                       /\ userData'[u].announcement_message # NoText]_vars

\* a Weekly session stands at the confirmation summary with Saturday chosen
C20_Witness ==
    \E u \in UserIds :
        /\ conv[u] = CONFIRM_SCHEDULE
        /\ userData[u].schedule_type = WEEKLY_SCHEDULE
        /\ userData[u].day = DaysPerWeek - 1
        /\ reply[u] = R_SUMMARY

\* C18: when one operator's Daily confirmation and another operator's
\* Weekly confirmation have both been saved, in either order, the store
\* holds the daily time and message of the first and the weekly time, day
\* and message of the second, both entries of the messages record included.
C18_NeitherUpdateLost ==
    \A u, v \in Operators :
        (/\ Saved(u) /\ userData[u].schedule_type = DAILY_SCHEDULE
         /\ Saved(v) /\ userData[v].schedule_type = WEEKLY_SCHEDULE)
            => HoldsDraft(settings, u) /\ HoldsDraft(settings, v)

\* both operators were told their draft was saved: daily 9:00 AM with
\* "Daily reminder", weekly Sunday 14:30 with "Weekly update"
C18_Witness ==
    /\ \A u \in Operators : Saved(u)
    /\ settings # <<>>
    /\ settings[1] = [daily_time  |-> <<"0", "9", ":", "0", "0">>,
                      weekly_time |-> <<"1", "4", ":", "3", "0">>,
                      weekly_day  |-> 0,
                      messages    |-> [daily  |-> "Daily reminder",
                                       weekly |-> "Weekly update"]]

\* the registered job with the given name, when there is exactly one
TheJob(name) == jobs[CHOOSE k \in 1..Len(jobs) : jobs[k].name = name]

\* C11: a registered weekly job runs only at the first slot of the minute
\* its weekday, hour and minute name, and is then set for the same weekday
\* and time one week later; its next run is never in the past and never more
\* than a week ahead, so that no occurrence is run twice or passed over while
\* the job stays registered.
C11_WeeklyFiresOnItsDayAndTime ==
    [][/\ \A k \in 1..Len(jobs) :
              jobs[k].name = WEEKLY_JOB
              => /\ jobs[k].next >= now
                 /\ jobs[k].next <= now + SlotsPerWeek
                 /\ jobs[k].next % SlotsPerWeek =
                        OccurrenceSlot(jobs[k].day, jobs[k].hour, jobs[k].minute)
       /\ \A k \in 1..Len(jobs) :
              weekly_announcement(k)
              => /\ now \div SlotsPerDay = jobs[k].day
                 /\ ClockText(now) = Canonical(jobs[k].hour, jobs[k].minute)
                 /\ now % SlotsPerMinute = 0
                 /\ jobs'[k].next = now + SlotsPerWeek
       /\ TickWeek => \A k \in 1..Len(jobs) :
                          jobs[k].name = WEEKLY_JOB => jobs[k].next > now]_vars

\* the weekly job of Monday 10:00 has run, is set for the Monday after, and
\* the clock has moved on to Tuesday
C11_Witness ==
    /\ bc[WEEKLY_JOB].pc = "done"
    /\ Len(bc[WEEKLY_JOB].sent) = 1
    /\ JobCount(WEEKLY_JOB) = 1
    /\ TheJob(WEEKLY_JOB).day = 1
    /\ TheJob(WEEKLY_JOB).hour = 10
    /\ TheJob(WEEKLY_JOB).next = SlotsPerWeek + OccurrenceSlot(1, 10, 0)
    /\ now \div SlotsPerDay = 2

C17_NoStaleFire ==
    [][/\ \A k \in 1..Len(jobs) :
              daily_announcement(k) => JobCount(DAILY_JOB) = 1
       /\ \A k \in 1..Len(jobs) :
              weekly_announcement(k)
              => LET st == get_schedule_settings(settings)
                 IN  /\ JobCount(WEEKLY_JOB) = 1
                     /\ now \div SlotsPerDay = st.weekly_day
                     /\ ClockText(now) = st.weekly_time]_vars

\* the weekly schedule was changed from Monday 10:00 to Sunday 14:30, the
\* new job has run on Sunday, and Monday 10:00 has gone by
C17_Witness ==
    /\ conv[FirstAdmin] = END
    /\ reply[FirstAdmin] = R_UPDATED
    /\ settings[1].weekly_day = 0
    /\ bc[WEEKLY_JOB].pc = "done"
    /\ bc[WEEKLY_JOB].sent[1].text = "Weekly update"
    /\ JobCount(WEEKLY_JOB) = 1
    /\ TheJob(WEEKLY_JOB).day = 0
    /\ now > OccurrenceSlot(1, 10, 0)
    /\ now < OccurrenceSlot(2, 0, 0)

\* what operator u entered in the session now open or last closed, for the
\* type chosen in it
TypedDraft(u) ==
    IF hist.typed[u].schedule_type = DAILY_SCHEDULE
    THEN <<hist.typed[u].time, hist.typed[u].announcement_message>>
    ELSE <<hist.typed[u].time, hist.typed[u].day,
           hist.typed[u].announcement_message>>

\* C21: /cancel is accepted in every state of an open conversation
\* (choosing the type, typing the message, typing the time, choosing the
\* day, confirming); it ends the conversation at once with the settings
\* collection and the job registry as they were; and whatever a later
\* Confirm of the same operator writes is what was entered in the session
\* that confirms, never a value left in context.user_data by an earlier
\* session.
C21_CancelledDraftNeverWritten ==
    /\ [](\A u \in UserIds : conv[u] # END => ENABLED cancel(u))
    /\ [][\A u \in UserIds :
             /\ cancel(u) => /\ conv'[u] = END
                             /\ settings' = settings
                             /\ jobs' = jobs
             /\ (Confirms(u) /\ settings' # settings)
                    => /\ hist.typed[u].schedule_type = userData[u].schedule_type
                       /\ IF hist.typed[u].schedule_type = DAILY_SCHEDULE
                          THEN /\ PersistedDaily(settings') = TypedDraft(u)
                               /\ PersistedWeekly(settings')
                                      = PersistedWeekly(settings)
                          ELSE PersistedWeekly(settings') = TypedDraft(u)]_vars

\* the first admin cancelled a Weekly session in which Sunday was chosen,
\* then saved a Daily session: the Sunday is still in context.user_data and
\* the store holds the weekly day it held before
C21_Witness ==
    /\ Saved(FirstAdmin)
    /\ hist.sessions = MaxSessions
    /\ userData[FirstAdmin].schedule_type = DAILY_SCHEDULE
    /\ userData[FirstAdmin].day = 0
    /\ hist.typed[FirstAdmin].day = NoDay
    /\ settings # <<>>
    /\ settings[1].weekly_day = DEFAULT_WEEKLY_DAY
    /\ PersistedDaily(settings) = TypedDraft(FirstAdmin)

\* C30: a Confirm whose write succeeds calls reschedule_jobs exactly once, in
\* the same handler run, on the settings the write left, and the
\* conversation is over when the run returns; a Confirm whose write fails,
\* the Cancel button, /cancel and a time input (rejected or accepted), like
\* every other step, call it not at all.
C30_RescheduleOncePerSavedConfirm ==
    [][/\ \A u \in UserIds : \A raises \in BOOLEAN :
             schedule_confirmation(u, CONFIRM_SCHEDULE_UPDATE, raises)
             => LET w == ConfirmWrite(u, raises)
                IN  IF w.ok
                    THEN /\ hist'.reschedules = hist.reschedules + 1
                         /\ settings' = w.coll
                         /\ jobs' = reschedule_jobs(jobs, settings', now).jobs
                         /\ conv'[u] = END
                    ELSE /\ hist'.reschedules = hist.reschedules
                         /\ jobs' = jobs
       /\ hist'.reschedules # hist.reschedules
              => \E u \in UserIds :
                     /\ Confirms(u)
                     /\ reply'[u] \in {R_UPDATED, R_SAVED_NOT_RESCHEDULED}
       /\ \A u \in UserIds :
              \/ cancel(u)
              \/ \E raises \in BOOLEAN :
                     schedule_confirmation(u, CANCEL_SCHEDULE_UPDATE, raises)
              \/ \E i \in 1..Len(TimeInputs) : time_input(u, i)
              => /\ hist'.reschedules = hist.reschedules
                 /\ jobs' = jobs]_vars

\* two sessions of the first admin are over, the first confirmed and saved
\* with a reinstall that moved the weekly job to Sunday, the second
\* confirmed with a write that failed: reschedule_jobs was called once
C30_Witness ==
    /\ hist.sessions = MaxSessions
    /\ hist.reschedules = 1
    /\ conv[FirstAdmin] = END
    /\ reply[FirstAdmin] = R_FAILED
    /\ settings # <<>>
    /\ settings[1].weekly_day = 0
    /\ \E k \in 1..Len(jobs) : jobs[k].name = WEEKLY_JOB /\ jobs[k].day = 0

C24_RecipientsReadOnceAtStart ==
    [][\A o \in Origins :
          /\ (bc[o].pc # "loop" /\ bc'[o].pc = "loop")
                 => bc'[o].snapshot = get_all_users
          /\ bc[o].pc = "loop"
                 => /\ bc'[o].snapshot = bc[o].snapshot
                    /\ Len(bc'[o].sent) > Len(bc[o].sent)
                           => /\ Len(bc'[o].sent) = Len(bc[o].sent) + 1
                              /\ bc'[o].sent[Len(bc'[o].sent)].to
                                     = bc[o].snapshot[Len(bc'[o].sent)]
                    /\ bc'[o].pc = "done"
                           => /\ Len(bc[o].sent) = Len(bc[o].snapshot)
                              /\ bc'[o].sent = bc[o].sent
          /\ (\E u \in RecipientIds : store_user_data(u)) => bc' = bc]_vars

\* a broadcast over two recipients is about to make its second send while
\* the users collection has meanwhile grown to three
C24_Witness ==
    LET b == bc[BROADCAST_MESSAGE]
    IN  /\ b.pc = "loop"
        /\ Len(b.snapshot) = 2
        /\ b.i = 2
        /\ Len(b.sent) = 1
        /\ Len(users) = 3
        /\ SubSeq(users, 1, 2) = b.snapshot

\* C28: a scheduled broadcast in flight can always take its next step (the
\* next send or, after the last one, its return), and no step of the bot,
\* a confirmation that rewrites the settings and reinstalls the jobs
\* included, takes it out of the loop or changes its text or its list:
\* every send carries the text read when the loop started, to the next
\* entry of the list read then, and the loop returns after the last entry.
C28_BroadcastInFlightRunsToCompletion ==
    /\ [](\A o \in {DAILY_JOB, WEEKLY_JOB} :
              bc[o].pc = "loop"
              => ENABLED (send_message(o, TRUE) \/ loop_return(o)))
    /\ [][\A o \in {DAILY_JOB, WEEKLY_JOB} :
              bc[o].pc = "loop"
              => /\ bc'[o].pc \in {"loop", "done"}
                 /\ bc'[o].text = bc[o].text
                 /\ bc'[o].snapshot = bc[o].snapshot
                 /\ (\E data \in {CONFIRM_SCHEDULE_UPDATE, CANCEL_SCHEDULE_UPDATE} :
                         schedule_confirmation(FirstAdmin, data, FALSE))
                        => bc' = bc
                 /\ Len(bc'[o].sent) > Len(bc[o].sent)
                        => LET n == Len(bc'[o].sent)
                           IN  /\ n = Len(bc[o].sent) + 1
                               /\ bc'[o].sent[n].text = bc[o].text
                               /\ bc'[o].sent[n].to = bc[o].snapshot[n]
                 /\ bc'[o].pc = "done"
                        => Len(bc'[o].sent) = Len(bc[o].snapshot)]_vars

\* the daily broadcast of "Daily reminder" has started and not yet sent when
\* the operator's Daily draft with another message is saved and the jobs
\* are reinstalled: the loop still holds the text it started with
C28_Witness ==
    /\ bc[DAILY_JOB].pc = "loop"
    /\ bc[DAILY_JOB].i = 1
    /\ bc[DAILY_JOB].text = "Daily reminder"
    /\ settings[1].messages.daily = "Weekly update"
    /\ reply[FirstAdmin] = R_UPDATED
    /\ hist.reschedules = 1

\* the registered triggers of registry q, their next run times left out
JobSetOf(q) ==
    [k \in 1..Len(q) |->
        [name |-> q[k].name, day |-> q[k].day, hour |-> q[k].hour,
         minute |-> q[k].minute]]

\* C27: the set of registered jobs changes only in main() (setup_scheduler)
\* and in a confirmation that calls reschedule_jobs; such a call is one
\* step, from the registry before to the registry with every old
\* announcement job removed and the jobs of the settings just written
\* registered, so that no state in between is seen by another confirmation,
\* a job run or a conversation step; two operators confirming at the same
\* moment reinstall one after the other, the second from what the first
\* left.
C27_ReinstallIsOneStep ==
    [][/\ JobSetOf(jobs') # JobSetOf(jobs)
              => \/ Main
                 \/ \E u \in UserIds :
                        /\ Confirms(u)
                        /\ hist'.reschedules = hist.reschedules + 1
       /\ hist'.reschedules \in {hist.reschedules, hist.reschedules + 1}
       /\ hist'.reschedules # hist.reschedules
              => /\ jobs' = setup_scheduler(RemoveAnnouncementJobs(jobs),
                                            settings', now)
                 /\ jobQueue
                        => \A name \in {DAILY_JOB, WEEKLY_JOB} :
                               JobCountIn(jobs', name) <= 1]_vars

\* both operators have confirmed and been told of the reinstall: two calls
\* of reschedule_jobs, and the registry holds the weekly job of the second
\* operator's draft, once
C27_Witness ==
    /\ \A u \in Operators : conv[u] = END /\ reply[u] = R_UPDATED
    /\ hist.reschedules = Cardinality(Operators)
    /\ JobCountIn(jobs, DAILY_JOB) = 1
    /\ JobCountIn(jobs, WEEKLY_JOB) = 1
    /\ \E k \in 1..Len(jobs) :
           /\ jobs[k].name = WEEKLY_JOB
           /\ jobs[k].day = settings[1].weekly_day
           /\ jobs[k].day = userData[FirstAdmin + 1].day

\* C25: a weekly job that is due can run at once, whether or not a daily
\* broadcast of the same instant is in flight, and a due daily poll can run
\* whether or not the weekly broadcast is in flight; each run starts its
\* own loop with its own message and leaves the other's loop as it is, and
\* every send of a loop carries that loop's text and moves that loop only.
C25_SimultaneousFiresBothDeliver ==
    /\ [](\A k \in 1..Len(jobs) :
              /\ DueWeekly(k) => ENABLED weekly_announcement(k)
              /\ (Due(k) /\ bc[DAILY_JOB].pc # "loop")
                     => ENABLED daily_announcement(k))
    /\ [][/\ \A k \in 1..Len(jobs) :
                 (daily_announcement(k) /\ bc' # bc)
                 => /\ bc'[DAILY_JOB] = StartLoop(DailyText(settings))
                    /\ bc'[WEEKLY_JOB] = bc[WEEKLY_JOB]
          /\ \A k \in 1..Len(jobs) :
                 weekly_announcement(k)
                 => /\ bc'[WEEKLY_JOB] = StartLoop(WeeklyText(settings))
                    /\ bc'[DAILY_JOB] = bc[DAILY_JOB]
          /\ \A o \in {DAILY_JOB, WEEKLY_JOB} :
                 bc'[o].sent # bc[o].sent /\ bc'[o].sent # <<>>
                 => /\ bc'[o].sent = Append(bc[o].sent,
                           [to |-> bc[o].snapshot[bc[o].i],
                            text |-> bc[o].text, ok |-> TRUE])
                    /\ \A p \in Origins \ {o} : bc'[p] = bc[p]]_vars

\* Sunday 14:30, the minute of the daily time and of the weekly schedule the
\* operator saved: both jobs ran in the same instant and both broadcasts
\* are over, the daily one of "Daily reminder", the weekly one of "Weekly
\* update", each to the one recipient
C25_Witness ==
    /\ now = OccurrenceSlot(0, 14, 30)
    /\ hist.dailyFires = 1
    /\ bc[DAILY_JOB].pc = "done"
    /\ bc[WEEKLY_JOB].pc = "done"
    /\ Len(bc[DAILY_JOB].sent) = 1
    /\ Len(bc[WEEKLY_JOB].sent) = 1
    /\ bc[DAILY_JOB].sent[1].text = "Daily reminder"
    /\ bc[WEEKLY_JOB].sent[1].text = "Weekly update"
    /\ bc[DAILY_JOB].sent[1].to = bc[WEEKLY_JOB].sent[1].to

\* the label of the keyboard button whose callback_data is d
ButtonLabel(d) ==
    LET b == CHOOSE b \in 1..Len(WeekdayButtons) :
                 IntOf(WeekdayButtons[b].callback_data) = d
    IN  WeekdayButtons[b].label

C26_ErrorInARunIsCaught ==
    /\ [](/\ JobCount(DAILY_JOB) = 1
          /\ JobCount(WEEKLY_JOB) = 1
          /\ \A k \in 1..Len(jobs) :
                 /\ Due(k) => ENABLED daily_announcement(k)
                 /\ DueWeekly(k) => ENABLED weekly_announcement(k))
    /\ [][/\ \A k \in 1..Len(jobs) :
                 daily_announcement_raises(k)
                 => /\ JobSetOf(jobs') = JobSetOf(jobs)
                    /\ jobs'[k].next = (now + SlotsPerMinute) % SlotsPerDay
                    /\ ~Running(DAILY_JOB)'
                    /\ bc' = bc
          /\ \A k \in 1..Len(jobs) :
                 weekly_announcement_raises(k)
                 => /\ JobSetOf(jobs') = JobSetOf(jobs)
                    /\ jobs'[k].next = now + SlotsPerWeek
                    /\ ~Running(WEEKLY_JOB)'
                    /\ bc' = bc
          /\ \A o \in {DAILY_JOB, WEEKLY_JOB} :
                 loop_raises(o)
                 => /\ jobs' = jobs
                    /\ ~Running(o)'
                    /\ bc'[o].sent = bc[o].sent]_vars

\* Tuesday, 14:31: no daily broadcast has ever started although 14:30 has
\* gone by three times, and no weekly one although Monday 10:00 has gone
\* by, so those runs raised; both jobs are registered, the weekly one for
\* Monday of next week, and the daily poll of 14:31 has run
C26_Witness ==
    /\ now = OccurrenceSlot(2, 14, 31) + 1
    /\ bc[DAILY_JOB].pc = "idle"
    /\ bc[WEEKLY_JOB].pc = "idle"
    /\ JobCount(DAILY_JOB) = 1
    /\ JobCount(WEEKLY_JOB) = 1
    /\ TheJob(DAILY_JOB).next = OccurrenceSlot(0, 14, 32)
    /\ TheJob(WEEKLY_JOB).next = SlotsPerWeek + OccurrenceSlot(1, 10, 0)

\* C29: while a send of a scheduled broadcast does not return, that loop
\* stays where it is and nothing else is held up: every daily poll that
\* comes due runs daily_announcement, the weekly job, unless it is the one
\* waiting, runs weekly_announcement when due, a broadcast started
\* meanwhile makes its sends, and the operator's conversation takes its
\* next step.
C29_HungSendStallsOnlyItsBroadcast ==
    /\ [](conv[FirstAdmin] = CONFIRM_SCHEDULE
              => ENABLED schedule_confirmation(FirstAdmin,
                                               CANCEL_SCHEDULE_UPDATE, FALSE))
    /\ [][\A h \in {DAILY_JOB, WEEKLY_JOB} :
              bc[h].pc = "hung"
              => /\ bc'[h] = bc[h]
                 /\ \A k \in 1..Len(jobs) :
                        (Due(k) /\ jobs'[k].next # jobs[k].next)
                        => daily_announcement(k)
                 /\ \A k \in 1..Len(jobs) :
                        (DueWeekly(k) /\ h # WEEKLY_JOB
                             /\ jobs'[k].next # jobs[k].next)
                        => weekly_announcement(k)]_vars

\* C33: a Confirm shows the "failed to update" text only if the store does
\* not hold the draft's values afterwards; a Confirm of a draft equal to what
\* is already persisted (store up, no error raised) is reported as saved and
\* the jobs are reinstalled.
C33_FailedOnlyWhenDraftNotPersisted ==
    [][\A u \in UserIds :
          schedule_confirmation(u, CONFIRM_SCHEDULE_UPDATE, FALSE)
          => /\ reply'[u] = R_FAILED => ~HoldsDraft(settings', u)
             /\ (dbUp /\ HoldsDraft(settings, u))
                    => /\ reply'[u] \in {R_UPDATED, R_SAVED_NOT_RESCHEDULED}
                       /\ jobs' = reschedule_jobs(jobs, settings', now).jobs
                       /\ hist'.reschedules = hist.reschedules + 1]_vars

\* C31: over start-ups, confirmations and cancellations the settings
\* collection holds at most one document; a document, once there, is never
\* deleted, and it changes only in a step that is a Confirm of the
\* configuration conversation.
C31_OneSettingsRecord ==
    /\ [](Len(settings) <= 1)
    /\ [][/\ Len(settings') >= Len(settings)
          /\ (settings # <<>> /\ settings' # settings)
                 => \E u \in UserIds : Confirms(u)]_vars

\* the store was empty at a start-up, a Confirm created the document, a later
\* start-up found it and inserted nothing, and a Confirm of the new process
\* has changed it again
C31_Witness ==
    /\ started
    /\ dbUp
    /\ hist.sessions = MaxSessions
    /\ Len(settings) = 1
    /\ settings[1].weekly_time = NoTime
    /\ settings[1].daily_time # NoTime
    /\ Saved(FirstAdmin)
    /\ hist.atStart[FirstAdmin] # <<>>
    /\ hist.atStart[FirstAdmin] # settings
    /\ hist.atStart[FirstAdmin][1].weekly_time = NoTime
    /\ hist.reschedules = 1

\* C34: every daily poll compares the clock with the daily time the store
\* holds at that poll: it starts a broadcast exactly when they are equal,
\* whatever the store held when the job was installed; after a daily time
\* change that was saved while the reinstallation failed, a daily job still
\* registered sends at the new time and not at the old one.
C34_PollReadsPersistedTimeAtPoll ==
    [][\A k \in 1..Len(jobs) :
          daily_announcement(k)
          => LET st == get_schedule_settings(settings)
             IN  /\ (bc'[DAILY_JOB] # bc[DAILY_JOB]) <=> (ClockText(now) = st.daily_time)
                 /\ (/\ reply[FirstAdmin] = R_SAVED_NOT_RESCHEDULED
                     /\ st.daily_time # hist.atStart[FirstAdmin][1].daily_time
                     /\ ClockText(now) = hist.atStart[FirstAdmin][1].daily_time)
                        => bc' = bc]_vars

\* the daily time was changed from 09:00 to 14:30, reschedule_jobs raised
\* before it removed anything, and the daily job installed at start-up let
\* a 09:00 go by and sent the new message at 14:30
C34_Witness ==
    /\ reply[FirstAdmin] = R_SAVED_NOT_RESCHEDULED
    /\ JobSetOf(jobs) = JobSetOf(hist.jobsAtStart[FirstAdmin])
    /\ JobCount(DAILY_JOB) = 1
    /\ hist.atStart[FirstAdmin][1].daily_time = DEFAULT_DAILY_TIME
    /\ settings[1].daily_time = <<"1", "4", ":", "3", "0">>
    /\ ClockText(now) = <<"1", "4", ":", "3", "0">>
    /\ bc[DAILY_JOB].pc = "done"
    /\ bc[DAILY_JOB].sent[1].text = "Daily reminder"
    /\ hist.dailyFires = 1

\* C35: a reschedule_jobs call that returns False leaves one job of each of
\* the two names in the registry if one was there before the call.
C35_FailedReinstallKeepsTheJobs ==
    [][\A u \in UserIds :
          (/\ conv[u] = CONFIRM_SCHEDULE
           /\ conv'[u] = END
           /\ reply'[u] = R_SAVED_NOT_RESCHEDULED)
          => \A name \in NamedJobs :
                 JobCount(name) = 1 => JobCountIn(jobs', name) = 1]_vars

\* C36: the settings collection is written only on behalf of a user who is
\* an admin when the write is made: /setschedule from a user who is no admin
\* opens no conversation, and a Confirm by a user whose admin role was taken
\* away during the conversation changes nothing in the collection.
C36_OnlyAdminsWriteSettings ==
    [][/\ \A k \in UserIds :
              (set_schedule_command(k) /\ ~is_admin(UserOf(k))) => conv'[k] = END
       /\ settings' # settings
              => \E k \in UserIds : Confirms(k) /\ is_admin(UserOf(k))]_vars

\* C37: once a user is admin the admins collection never becomes empty
\* again, whatever add-admin and remove-admin conversations the admins hold;
\* start therefore makes only the very first user an admin.
C37_AdminSetNeverEmptiesAgain ==
    [][/\ admins # {} => admins' # {}
       /\ \A k \in UserIds :
              (start(k) /\ admins' # admins) => users = <<>>]_vars

\* C32: each configuration session has its own draft: when one operator has
\* two sessions open in two chats, a Confirm in one of them writes the type,
\* message, time and day entered in that session, never a value entered in
\* the other.
C32_ConfirmWritesItsOwnSession ==
    [][\A k \in UserIds :
          (Confirms(k) /\ settings' # settings)
          => IF hist.typed[k].schedule_type = DAILY_SCHEDULE
             THEN PersistedDaily(settings') = TypedDraft(k)
             ELSE PersistedWeekly(settings') = TypedDraft(k)]_vars

\* what holds of the loop of announcement_confirmation in every state
AnnounceLoopInvariant ==
    LET b == bc[ANNOUNCEMENT]
        K == Cardinality({n \in 1..Len(b.sent) : b.sent[n].ok})
        M == Cardinality({n \in 1..Len(b.sent) : ~b.sent[n].ok})
    IN  /\ \A k \in UserIds :
               adminConv[k].announce # END => is_admin(UserOf(k))
        /\ b.pc = "idle" => b.sent = <<>>
        /\ b.pc = "loop"
               => /\ Len(b.sent) = b.i - 1
                  /\ \E k \in UserIds :
                         adminConv[k].announce = CONFIRM_ANNOUNCEMENT
        /\ \A n \in 1..Len(b.sent) :
               b.sent[n].to = b.snapshot[n] /\ b.sent[n].text = b.text
        /\ b.pc = "done"
               => /\ Len(b.sent) = Len(b.snapshot)
                  /\ b.success_count = K
                  /\ b.failure_count = M
                  /\ b.success_count + b.failure_count = Len(b.snapshot)

\* what holds of every step: which steps start the loop, which send
AnnounceStepRule ==
    /\ (~Running(ANNOUNCEMENT) /\ bc' # bc)
           => \E k \in UserIds :
                 /\ adminConv[k].announce = CONFIRM_ANNOUNCEMENT
                 /\ is_admin(UserOf(k))
                 /\ userData[UserOf(k)].announcement_text \in Messages
                 /\ announcement_confirmation(k, "send_announcement")
                 /\ bc'[ANNOUNCEMENT].sent = <<>>
                 /\ bc'[ANNOUNCEMENT].snapshot = users
                 /\ bc'[ANNOUNCEMENT].text
                        = AnnouncementText(userData[UserOf(k)].announcement_text)
    /\ \A k \in UserIds :
           (\/ announcement_confirmation(k, "cancel_announcement")
            \/ cancel_admin(k, "announce")
            \/ (~is_admin(UserOf(k)) /\ announce_command(k)))
               => bc' = bc
    /\ Len(bc'[ANNOUNCEMENT].sent) > Len(bc[ANNOUNCEMENT].sent)
           => \E ok \in BOOLEAN : announcement_send(ok)

\* C38: in the /announce conversation the loop of sends starts only in a step
\* taken from the confirmation state of a conversation an admin entered, by
\* the Send button, with the text typed into it; the Cancel button, /cancel
\* and /announce of a user who is not an admin start nothing and send
\* nothing; and the loop makes one attempt per recipient of the list read at
\* Send, in order, each with the framed text, counts every success and every
\* failure, and goes on after a failure to the end of the list.
C38_AnnounceSendsOnlyOnSend ==
    /\ []AnnounceLoopInvariant
    /\ [][AnnounceStepRule]_vars

\* an announcement typed and sent by the admin to three users: the first send
\* failed, the other two were made and succeeded, and the counts were shown
C38_Witness ==
    LET b == bc[ANNOUNCEMENT]
    IN  /\ b.pc = "done"
        /\ Len(b.snapshot) = 3
        /\ b.text = AnnouncementText("Weekly update")
        /\ ~b.sent[1].ok /\ b.sent[2].ok /\ b.sent[3].ok
        /\ b.success_count = 2
        /\ b.failure_count = 1
        /\ reply[FirstAdmin] = "Announcement sent"
        /\ adminConv[FirstAdmin].announce = END
        /\ reply[2] = R_DENIED

====
